---- MODULE Spec2Model ----
(***************************************************************************)
(* dexie-kit-migrate: the migration runtime (runMigrations) as a state     *)
(* machine over a versioned store.                                         *)
(*                                                                         *)
(* The repository holds two copies of the runtime (src/src/types.ts        *)
(* 379-574 and 584-774).  Spec runs the first copy, Spec2 the second.      *)
(*                                                                         *)
(* The store itself (Dexie over IndexedDB) is a collaborator whose code is *)
(* not part of the repository.  It is modelled by the contract the         *)
(* repository relies on: versions are monotonic, opening with a declared   *)
(* chain 1..N runs the upgrade callbacks of the versions above the store's *)
(* current version in order ("New installations apply all migrations in    *)
(* sequence"), every version commits in its own transaction ("atomic       *)
(* steps"), and a throwing callback aborts its version and the open.       *)
(*                                                                         *)
(* SpecNotify runs the first copy with onProgress, onError and onComplete  *)
(* callbacks that return or throw.                                         *)
(*                                                                         *)
(* SpecCoord is the multi-tab coordination (src/src/coordination.ts): the  *)
(* MigrationCoordinators of the tabs that share a database name, the       *)
(* messages posted between their channels, the timers of                   *)
(* checkForActiveLock and waitForLock, and runWithCoordination.  Posted    *)
(* messages are delivered before time advances (zero delivery latency).    *)
(* SpecWait is the coordinators alone, with the fairness of the event      *)
(* loop.                                                                   *)
(*                                                                         *)
(* SpecExpected, SpecSquash and SpecSnapshot call the pure functions of    *)
(* the snapshot module (src/unnamed/part_001) and the squash module        *)
(* (src/src/squash.ts) on inputs drawn from bounded sets.                  *)
(*                                                                         *)
(* SpecConcurrent has two runMigrations calls of the same set in flight on *)
(* one store; SpecSquashedRun applies a set to a fresh store and then runs *)
(* its squashed form against that store.                                   *)
(***************************************************************************)
EXTENDS Integers, Sequences, FiniteSets, TLC

VARIABLES
  store,   \* the persistent store of one database name
  now,     \* number of runMigrations calls started so far (also Date.now())
  run,     \* run[r]: the state of runner r's runMigrations call
  coord,   \* coord[c]: the MigrationCoordinator of tab c and the calls on it
  inbox,   \* inbox[c]: messages posted to the channel of tab c, not yet delivered
  calls,   \* number of calls made on the coordinators so far
  tool     \* the latest call of a function of the snapshot or squash module:
           \* its name, its arguments and what it returned

vars == <<store, now, run, coord, inbox, calls, tool>>
coordVars == <<coord, inbox, calls>>
toolVars == <<tool>>

(***************************************************************************)
(* Bounds                                                                  *)
(***************************************************************************)
MaxId == 3        \* migration ids of the well-formed inputs are 1..MaxId
MaxRuns == 3      \* runMigrations calls per behaviour
MaxNotifyRuns == 2   \* calls per behaviour when the callbacks of options may throw
MaxCalls == 4     \* calls on the coordinators per behaviour

Runners == {1, 2}
SeqRunners == {1}

MIGRATIONS_TABLE == "_dexie_migrations"
TRACKING_SCHEMA == "id, name, appliedAt"
NULL == "<null>"

\* The tabs that share the database name, each with at most one
\* MigrationCoordinator at a time; the tab's number stands for its tabId.
Tabs == {1, 2}

\* Durations in units of 100 ms: the window of checkForActiveLock, the pause
\* between two attempts of waitForLock, and the lock timeouts of the callers.
DISCOVERY_WINDOW == 1
BACKOFF == 5
LockTimeouts == {0, 3, 7}

\* No function of the snapshot or squash module was called yet.
NoCall == [op |-> "none", args |-> <<>>, left |-> <<>>, out |-> <<>>]

\* A tab without a coordinator.
NoCoordinator ==
  [ made |-> FALSE,          \* a coordinator was constructed
    channel |-> FALSE,       \* this.channel is an open BroadcastChannel
    lock |-> FALSE,          \* this.lock !== null
    listening |-> FALSE,     \* onLockAcquired is registered
    acquire |-> "idle",      \* acquireLock: "idle" or in its "window"
    caller |-> "none",       \* who called it: "user" or "waitForLock"
    windowLeft |-> 0,        \* time until the timer of checkForActiveLock fires
    acquired |-> "none",     \* what the last acquireLock of the user returned
    wait |-> "idle",         \* waitForLock: "idle", in an "attempt" or in "backoff"
    waiter |-> "none",       \* who called it: "user" or "job"
    maxWait |-> 0,
    elapsed |-> 0,           \* Date.now() - startTime, counted up to maxWait
    backoffLeft |-> 0,
    attempts |-> 0,          \* acquireLock calls of the current waitForLock
    waited |-> "none",       \* what the last waitForLock of the user returned
    job |-> "none",          \* runWithCoordination: "waitForLock", "work", settled
    work |-> "none",         \* how the work callback settles
    lockTimeout |-> 0,
    workCalls |-> 0,
    jobError |-> "",
    named |-> 0,             \* the timeout the lock-timeout error names
    hasChannel |-> FALSE,    \* BroadcastChannel was defined at construction
    holders |-> {},          \* history: the tabs that hold the lock since the
                             \* call of runWithCoordination, without a release
    settledBefore |-> {},    \* history: the tabs whose runWithCoordination had
                             \* settled when this coordinator was made
    granted |-> FALSE,       \* history: acquireLock has returned true, and neither
                             \* releaseLock nor destroy was called since
    sent |-> <<>> ]          \* the messages posted on the channel, in order

(***************************************************************************)
(* Helpers on sequences                                                    *)
(***************************************************************************)
MapId(s) == [i \in DOMAIN s |-> s[i].id]

RECURSIVE InsertById(_, _)
InsertById(m, sorted) ==
  IF sorted = <<>> THEN <<m>>
  ELSE IF m.id < Head(sorted).id THEN <<m>> \o sorted
  ELSE <<Head(sorted)>> \o InsertById(m, Tail(sorted))

\* Mutant: the list is used in its input order.
SortById_unsorted(s) == s

RECURSIVE SortById(_)
\* [...migrations].sort((a, b) => a.id - b.id): stable, ascending by id
SortById(s) ==
  IF s = <<>> THEN <<>>
  ELSE InsertById(s[Len(s)], SortById(SubSeq(s, 1, Len(s) - 1)))

(***************************************************************************)
(* Migration values                                                        *)
(***************************************************************************)
\* The stores map a migration with this id carries; NoStores = no stores field.
NoStores == [t \in {} |-> NULL]

StoresFor(id) ==
  CASE id = 1 -> [t \in {"users"} |-> "id, email"]
    [] id = 2 -> [t \in {"users", "posts"} |->
                    IF t = "users" THEN "id, email, name" ELSE "++id"]
    [] id = 3 -> [t \in {"users", "logs"} |-> IF t = "users" THEN NULL ELSE "id"]
    [] id < 0 -> NoStores
    [] OTHER -> [t \in {"posts"} |-> NULL]

\* The callbacks a migration with this id carries when it does not fail:
\* <<up, validateAfter>>, each absent ("none") or succeeding.
CallbacksFor(id) ==
  CASE id = 1 -> <<"ok", "none">>
    [] id = 2 -> <<"none", "none">>
    [] id = 3 -> <<"ok", "true">>
    [] OTHER -> <<"none", "true">>

\* The ways an upgrade step's callbacks fail.
FailKinds == {"up throws", "validateAfter false", "validateAfter throws"}

Failing(cb, kind) ==
  CASE kind = "up throws" -> <<"throw", cb[2]>>
    [] kind = "validateAfter false" -> <<cb[1], "false">>
    [] kind = "validateAfter throws" -> <<cb[1], "throw">>
    [] OTHER -> cb

Mig(id, cb) ==
  [ id |-> id, typeofId |-> "number",
    name |-> "m", typeofName |-> "string",
    stores |-> StoresFor(id),
    up |-> cb[1], validateAfter |-> cb[2] ]

\* The ids of a set in ascending order, and two rearrangements of a list.
Ascending(S) ==
  CHOOSE s \in [1..Cardinality(S) -> S] : \A i, j \in DOMAIN s : i < j => s[i] < s[j]

Reverse(s) == [i \in DOMAIN s |-> s[Len(s) + 1 - i]]

Rotate(s) == [i \in DOMAIN s |-> s[(i % Len(s)) + 1]]

\* The id lists of the well-formed inputs: every non-empty set of ids,
\* ascending, descending and rotated.
IdSeqs ==
  UNION { {Ascending(S), Reverse(Ascending(S)), Rotate(Ascending(S))}
          : S \in (SUBSET (1..MaxId)) \ {{}} }

\* A well-formed list: at most one of its migrations (the one at index
\* failAt, 0 for none) carries a failing callback.
MigList(ids, failAt, kind) ==
  [i \in DOMAIN ids |->
     Mig(ids[i], IF i = failAt THEN Failing(CallbacksFor(ids[i]), kind)
                 ELSE CallbacksFor(ids[i]))]

WellFormed ==
  UNION { { MigList(ids, 0, "none") } \cup
          { MigList(ids, i, kind) : i \in DOMAIN ids, kind \in FailKinds }
          : ids \in IdSeqs }

\* Edge-case inputs of validateMigrations.  id = 0 with typeofId "number"
\* stands for the falsy numbers (0, NaN).
Plain(id) == Mig(id, <<"none", "none">>)

\* A migration with the given stores map.
Stored(id, stores) == [Plain(id) EXCEPT !.stores = stores]

\* A set that has a migration without a stores map and two that name the
\* tracking table in theirs, once to delete it and once with another schema.
NamesTracking ==
  << Mig(-1, <<"none", "none">>),
     Stored(1, [t \in {MIGRATIONS_TABLE, "users"} |->
                  IF t = "users" THEN "id, email" ELSE NULL]),
     Stored(2, [t \in {MIGRATIONS_TABLE, "users"} |->
                  IF t = "users" THEN NULL ELSE "id"]) >>

EdgeLists ==
  { <<>>,
    <<Plain(1), Plain(1)>>,
    <<Plain(1), [Plain(2) EXCEPT !.up = "ok"], Plain(1)>>,
    <<Plain(0)>>,
    <<Plain(1), [Plain(0) EXCEPT !.typeofId = "undefined"]>>,
    <<[Plain(2) EXCEPT !.typeofId = "string"]>>,
    <<[Plain(1) EXCEPT !.name = ""]>>,
    <<[Plain(1) EXCEPT !.typeofName = "undefined", !.name = ""]>>,
    <<[Plain(2) EXCEPT !.typeofName = "number"]>>,
    <<Mig(-1, <<"ok", "true">>)>>,
    NamesTracking }

\* An argument of runMigrations: an array, or something that is no array.
Inputs ==
  { [isArray |-> TRUE, items |-> s] : s \in WellFormed \cup EdgeLists }
    \cup { [isArray |-> FALSE, items |-> <<>>] }

(***************************************************************************)
(* validateMigrations                                                      *)
(***************************************************************************)
\* !migration.id and !migration.name
FalsyId(m) == m.typeofId = "undefined" \/ (m.typeofId = "number" /\ m.id = 0)
FalsyName(m) == m.typeofName = "undefined" \/ (m.typeofName = "string" /\ m.name = "")

\* The key under which new Set(ids) holds an id (1 and "1" are different keys).
IdKey(m) == <<m.typeofId, m.id>>

InvalidId(m) == FalsyId(m) \/ m.typeofId # "number"
InvalidName(m) == FalsyName(m) \/ m.typeofName # "string"

\* Mutant: no check for repeated ids.
validateMigrations_noDuplicateCheck(migrations) ==
  IF ~migrations.isArray THEN "Migrations must be an array"
  ELSE LET ms == migrations.items IN
    IF Len(ms) = 0 THEN "At least one migration is required"
    ELSE IF \E i \in DOMAIN ms : InvalidId(ms[i]) THEN "Migration has invalid ID"
    ELSE IF \E i \in DOMAIN ms : InvalidName(ms[i]) THEN "Migration has invalid name"
    ELSE "ok"

\* "ok", or the error validateMigrations throws.
validateMigrations(migrations) ==
  IF ~migrations.isArray THEN "Migrations must be an array"
  ELSE LET ms == migrations.items IN
    IF Len(ms) = 0 THEN "At least one migration is required"
    ELSE IF Cardinality({IdKey(ms[i]) : i \in DOMAIN ms}) # Len(ms)
      THEN "Duplicate migration IDs detected"
    ELSE IF \E i \in DOMAIN ms : InvalidId(ms[i]) \/ InvalidName(ms[i])
      THEN LET i == CHOOSE k \in DOMAIN ms :
                      /\ InvalidId(ms[k]) \/ InvalidName(ms[k])
                      /\ \A j \in 1..(k - 1) : ~(InvalidId(ms[j]) \/ InvalidName(ms[j]))
           IN IF InvalidId(ms[i]) THEN "Migration has invalid ID"
              ELSE "Migration has invalid name"
    ELSE "ok"

(***************************************************************************)
(* The store                                                               *)
(***************************************************************************)
NoRecords == [i \in {} |-> [name |-> "", appliedAt |-> 0]]

\* version 0: the database does not exist.
NoStore == [version |-> 0, tables |-> NoStores, records |-> NoRecords, data |-> {}]

\* A stores map laid over the schema declared so far (a later entry replaces
\* an earlier one).
Extend(schema, stores) ==
  [t \in DOMAIN schema \cup DOMAIN stores |->
     IF t \in DOMAIN stores THEN stores[t] ELSE schema[t]]

DropNull(schema) == [t \in {u \in DOMAIN schema : schema[u] # NULL} |-> schema[t]]

RECURSIVE Declared(_, _)
\* The schema of version v of a chain: the stores of versions 1..v laid over
\* each other, null entries still in it.
Declared(chain, v) ==
  IF v = 0 THEN NoStores ELSE Extend(Declared(chain, v - 1), chain[v].stores)

\* The tables the store has once version v of the chain is installed.
SchemaAt(chain, v) == DropNull(Declared(chain, v))

\* The outcome of one version's upgrade transaction: commit installs the
\* transaction's writes with the new version and schema, abort leaves the
\* store as it was.
CommitVersion(s, v, schema, tx) ==
  [version |-> v, tables |-> schema, records |-> tx.records, data |-> tx.data]

AbortVersion(s, v, schema, tx) == s

(***************************************************************************)
(* getAppliedMigrations (first copy)                                       *)
(***************************************************************************)
\* Mutant: the records of the tracking table are not read.
getAppliedMigrations_forgetsRecords(s) == {}

getAppliedMigrations(s) ==
  IF s.version = 0 THEN {}                            \* open rejects: catch
  ELSE IF MIGRATIONS_TABLE \notin DOMAIN s.tables THEN {}
  ELSE DOMAIN s.records

(***************************************************************************)
(* The state of one runMigrations call                                     *)
(***************************************************************************)
\* The notification callbacks of options: each returns or throws when called.
Quiet == [onProgress |-> "returns", onError |-> "returns", onComplete |-> "returns"]

Behaviours == [onProgress : {"returns", "throws"}, onError : {"returns", "throws"},
               onComplete : {"returns", "throws"}]

NoResult ==
  [db |-> NULL, appliedMigrations |-> <<>>, skippedMigrations |-> <<>>, finalVersion |-> 0]

IdleRun ==
  [ pc |-> "idle",
    migrations |-> [isArray |-> FALSE, items |-> <<>>],
    dryRun |-> FALSE,
    options |-> Quiet,
    sortedMigrations |-> <<>>,
    appliedIds |-> {},
    pendingMigrations |-> <<>>,
    skippedMigrations |-> <<>>,
    newlyApplied |-> <<>>,       \* newlyApplied / appliedMigrationIds
    chain |-> <<>>,              \* the versions declared on db
    log |-> <<>>,                \* callbacks and table writes, in order
    result |-> NoResult,
    error |-> "",
    caught |-> "",               \* the error a failed upgrade step passed to onError
    before |-> NoStore,          \* the store when the call was made
    prev |-> <<>> ]              \* <<the caller's previous call>>, if it repeats it

\* An entry of the log.
Ev(kind, id, k, total) == [kind |-> kind, id |-> id, k |-> k, total |-> total]

(***************************************************************************)
(* runMigrations, first copy: the version chain                            *)
(***************************************************************************)
\* Mutant: an entry of the migration for the tracking table is kept.
VersionStores_keepsEntry(migration) ==
  Extend([t \in {MIGRATIONS_TABLE} |-> TRACKING_SCHEMA], migration.stores)

\* stores of a version: the migration's stores plus the tracking table
VersionStores(migration) ==
  Extend(migration.stores, [t \in {MIGRATIONS_TABLE} |-> TRACKING_SCHEMA])

RECURSIVE BuildChain(_, _, _, _)
\* The loop over sortedMigrations from index i on; acc holds db's versions and
\* newlyApplied as built so far.
BuildChain(sortedMigrations, appliedIds, i, acc) ==
  IF i > Len(sortedMigrations) THEN acc
  ELSE
    LET migration == sortedMigrations[i]
        isNewMigration == migration.id \notin appliedIds
        version == [ versionNumber |-> i,
                     stores |-> VersionStores(migration),
                     isNewMigration |-> isNewMigration,
                     migration |-> migration,
                     progressIndex |-> Len(acc.newlyApplied) + 1 ]
    IN BuildChain(sortedMigrations, appliedIds, i + 1,
         [ chain |-> Append(acc.chain, version),
           newlyApplied |-> IF isNewMigration
                              THEN Append(acc.newlyApplied, migration.id)
                              ELSE acc.newlyApplied,
           progress |-> <<>> ])

\* Mutant: the catch block calls onError and does not rethrow.
UpgradeFailed_swallows(m, tx, events, error, options) ==
  [ok |-> TRUE, tx |-> tx, events |-> Append(events, Ev("onError", m.id, 0, 0)),
   error |-> "", caught |-> error, pushed |-> <<>>]

\* A failed upgrade callback: the catch block calls onError with the error
\* and rethrows it; an onError that throws replaces it.
UpgradeFailed(m, tx, events, error, options) ==
  [ok |-> FALSE, tx |-> tx, events |-> Append(events, Ev("onError", m.id, 0, 0)),
   error |-> IF options.onError = "throws" THEN "onError threw" ELSE error,
   caught |-> error, pushed |-> <<>>]

\* Mutant: the value validateAfter returns is not looked at.
UpgradeBody_ignoresValidity(m, tx, events, t, pushed, options) ==
  LET afterUp == IF m.up = "none" THEN tx ELSE [tx EXCEPT !.data = @ \cup {m.id}]
      e1 == IF m.up = "none" THEN events ELSE Append(events, Ev("up", m.id, 0, 0))
      e2 == IF m.validateAfter = "none" THEN e1
            ELSE Append(e1, Ev("validateAfter", m.id, 0, 0))
  IN IF m.up = "throw" THEN UpgradeFailed(m, afterUp, e1, "up threw", options)
     ELSE IF m.validateAfter = "throw" THEN UpgradeFailed(m, afterUp, e2, "validateAfter threw", options)
     ELSE IF m.id \in DOMAIN afterUp.records
       THEN UpgradeFailed(m, afterUp, e2, "ConstraintError", options)
     ELSE [ ok |-> TRUE,
            tx |-> [afterUp EXCEPT !.records =
                      [i \in DOMAIN @ \cup {m.id} |->
                         IF i = m.id THEN [name |-> m.name, appliedAt |-> t] ELSE @[i]]],
            events |-> Append(e2, Ev("add", m.id, 0, 0)),
            error |-> "", caught |-> "", pushed |-> pushed ]

\* up, validateAfter and the insertion of the record, on the transaction tx.
\* up writes its rows (the marker m.id in data) before it returns or throws.
UpgradeBody(m, tx, events, t, pushed, options) ==
  LET afterUp == IF m.up = "none" THEN tx ELSE [tx EXCEPT !.data = @ \cup {m.id}]
      e1 == IF m.up = "none" THEN events ELSE Append(events, Ev("up", m.id, 0, 0))
      e2 == IF m.validateAfter = "none" THEN e1
            ELSE Append(e1, Ev("validateAfter", m.id, 0, 0))
  IN IF m.up = "throw" THEN UpgradeFailed(m, afterUp, e1, "up threw", options)
     ELSE IF m.validateAfter = "throw" THEN UpgradeFailed(m, afterUp, e2, "validateAfter threw", options)
     ELSE IF m.validateAfter = "false" THEN UpgradeFailed(m, afterUp, e2, "validation failed", options)
     ELSE IF m.id \in DOMAIN afterUp.records
       THEN UpgradeFailed(m, afterUp, e2, "ConstraintError", options)
     ELSE [ ok |-> TRUE,
            tx |-> [afterUp EXCEPT !.records =
                      [i \in DOMAIN @ \cup {m.id} |->
                         IF i = m.id THEN [name |-> m.name, appliedAt |-> t] ELSE @[i]]],
            events |-> Append(e2, Ev("add", m.id, 0, 0)),
            error |-> "", caught |-> "", pushed |-> pushed ]

\* The upgrade callback of a pending migration (first copy).
\* onProgress is called inside the try block: when it throws, the step fails.
upgrade(version, total, tx, t, options) ==
  LET called == <<Ev("onProgress", version.migration.id, version.progressIndex, total)>>
  IN IF options.onProgress = "throws"
       THEN UpgradeFailed(version.migration, tx, called, "onProgress threw", options)
       ELSE UpgradeBody(version.migration, tx, called, t, <<>>, options)

(***************************************************************************)
(* runMigrations, first copy: the steps of a call                          *)
(***************************************************************************)
\* The entry of runMigrations: validateMigrations and the sort, up to the
\* first await.
Enter(r, migrations, dryRun, prev, options) ==
  LET err == validateMigrations(migrations)
      called == [IdleRun EXCEPT !.migrations = migrations, !.dryRun = dryRun,
                                !.options = options,
                                !.before = store, !.prev = prev]
  IN /\ run' = [run EXCEPT ![r] =
                 IF err # "ok"
                   THEN [called EXCEPT !.pc = "rejected", !.error = err]
                   ELSE [called EXCEPT !.pc = "getApplied",
                                       !.sortedMigrations = SortById(migrations.items)]]
     /\ now' = now + 1
     /\ UNCHANGED <<store, coordVars, toolVars>>

\* A call with any input.
Call(r) ==
  /\ run[r].pc = "idle"
  /\ now < MaxRuns
  /\ \E migrations \in Inputs, dryRun \in BOOLEAN :
       Enter(r, migrations, dryRun, <<>>, Quiet)

\* The list with its failing callbacks repaired.
Repaired(migrations) ==
  [migrations EXCEPT !.items = MigList(MapId(migrations.items), 0, "none")]

\* The caller calls again with the list of the call that just settled, as it
\* was or repaired.
Rerun(r) ==
  /\ run[r].pc \in {"resolved", "rejected"}
  /\ now < MaxRuns
  /\ validateMigrations(run[r].migrations) = "ok"
  /\ \E migrations \in {run[r].migrations, Repaired(run[r].migrations)},
        dryRun \in BOOLEAN :
       Enter(r, migrations, dryRun, <<[run[r] EXCEPT !.prev = <<>>]>>, Quiet)

\* The result of a dry run.
DryRunResult(sortedMigrations, skippedMigrations) ==
  [ db |-> NULL, appliedMigrations |-> <<>>,
    skippedMigrations |-> MapId(skippedMigrations),
    finalVersion |-> Len(sortedMigrations) ]

\* After getAppliedMigrations: pending and skipped, then the dry-run return
\* or the version chain, up to db.open().
Plan(r) ==
  /\ run[r].pc = "getApplied"
  /\ LET sortedMigrations == run[r].sortedMigrations
         appliedIds == getAppliedMigrations(store)
         pendingMigrations == SelectSeq(sortedMigrations, LAMBDA m : m.id \notin appliedIds)
         skippedMigrations == SelectSeq(sortedMigrations, LAMBDA m : m.id \in appliedIds)
         planned == [run[r] EXCEPT !.appliedIds = appliedIds,
                                   !.pendingMigrations = pendingMigrations,
                                   !.skippedMigrations = skippedMigrations]
         built == BuildChain(sortedMigrations, appliedIds, 1,
                             [chain |-> <<>>, newlyApplied |-> <<>>, progress |-> <<>>])
     IN run' = [run EXCEPT ![r] =
                 IF run[r].dryRun
                   THEN [planned EXCEPT !.pc = "resolved",
                           !.result = DryRunResult(sortedMigrations, skippedMigrations)]
                   ELSE [planned EXCEPT !.pc = "opening",
                           !.chain = built.chain,
                           !.newlyApplied = built.newlyApplied,
                           !.log = built.progress]]
  /\ UNCHANGED <<store, now, coordVars, toolVars>>

\* db.open() installs the next version above the store's current one: its
\* schema, and its upgrade callback (outcome res) if it has one, in one
\* transaction.
InstallVersion(r, v, res) ==
  LET version == run[r].chain[v]
      schema == SchemaAt(run[r].chain, v)
  IN IF ~version.isNewMigration
       THEN /\ store' = CommitVersion(store, v, schema, store)
            /\ UNCHANGED run
       ELSE /\ store' = IF res.ok THEN CommitVersion(store, v, schema, res.tx)
                                  ELSE AbortVersion(store, v, schema, res.tx)
            /\ run' = [run EXCEPT ![r] =
                        [@ EXCEPT !.log = @ \o res.events,
                                  !.newlyApplied = @ \o res.pushed,
                                  !.pc = IF res.ok THEN "opening" ELSE "rejected",
                                  !.error = res.error,
                                  !.caught = res.caught]]

UpgradeStep(r) ==
  /\ run[r].pc = "opening"
  /\ store.version < Len(run[r].chain)
  /\ LET v == store.version + 1
     IN InstallVersion(r, v, upgrade(run[r].chain[v], Len(run[r].pendingMigrations),
                                     store, now, run[r].options))
  /\ UNCHANGED <<now, coordVars, toolVars>>

\* Mutant: every migration of the set is reported as applied.
OpenResult_reportsAll(rn) ==
  [ db |-> "db", appliedMigrations |-> MapId(rn.sortedMigrations),
    skippedMigrations |-> MapId(rn.skippedMigrations),
    finalVersion |-> Len(rn.sortedMigrations) ]

\* Mutant: no migration is reported as skipped.
OpenResult_skipsNone(rn) ==
  [ db |-> "db", appliedMigrations |-> rn.newlyApplied,
    skippedMigrations |-> <<>>,
    finalVersion |-> Len(rn.sortedMigrations) ]

\* What runMigrations resolves with once db.open() has resolved.
OpenResult(rn) ==
  [ db |-> "db", appliedMigrations |-> rn.newlyApplied,
    skippedMigrations |-> MapId(rn.skippedMigrations),
    finalVersion |-> Len(rn.sortedMigrations) ]

\* Mutant: onComplete is called whether or not db.open() resolved.
Opened_completesOnReject(r) ==
  /\ run[r].pc = "opening"
  /\ store.version >= Len(run[r].chain)
  /\ run' = [run EXCEPT ![r] =
              IF store.version > Len(run[r].chain)
                THEN [@ EXCEPT !.pc = "rejected", !.error = "VersionError",
                               !.log = Append(@, Ev("onComplete", 0, 0, 0))]
                ELSE [@ EXCEPT !.pc = "resolved",
                               !.log = Append(@, Ev("onComplete", 0, 0, 0)),
                               !.result = OpenResult(run[r])]]
  /\ UNCHANGED <<store, now, coordVars, toolVars>>

\* db.open() settles: it rejects when the store is already above the declared
\* versions, else it resolves, onComplete is called and the result returned;
\* an onComplete that throws is caught and rethrown by the enclosing try.
Opened(r) ==
  /\ run[r].pc = "opening"
  /\ store.version >= Len(run[r].chain)
  /\ run' = [run EXCEPT ![r] =
              IF store.version > Len(run[r].chain)
                THEN [@ EXCEPT !.pc = "rejected", !.error = "VersionError"]
              ELSE IF run[r].options.onComplete = "throws"
                THEN [@ EXCEPT !.pc = "rejected", !.error = "onComplete threw",
                               !.log = Append(@, Ev("onComplete", 0, 0, 0))]
                ELSE [@ EXCEPT !.pc = "resolved",
                               !.log = Append(@, Ev("onComplete", 0, 0, 0)),
                               !.result = OpenResult(run[r])]]
  /\ UNCHANGED <<store, now, coordVars, toolVars>>

\* The caller is done with a settled call.
Return(r) ==
  /\ run[r].pc \in {"resolved", "rejected"}
  /\ run' = [run EXCEPT ![r] = IdleRun]
  /\ UNCHANGED <<store, now, coordVars, toolVars>>

(***************************************************************************)
(* runMigrations, second copy                                              *)
(***************************************************************************)
\* getAppliedMigrations of the second copy opens the database as version 1
\* with the tracking table alone: that creates a database that does not
\* exist, and is rejected by one that is above version 1.
getAppliedMigrations2(s) ==
  IF s.version = 0
    THEN [ appliedIds |-> {},
           store |-> [ version |-> 1,
                       tables |-> [t \in {MIGRATIONS_TABLE} |-> TRACKING_SCHEMA],
                       records |-> NoRecords, data |-> {} ] ]
  ELSE IF s.version > 1 THEN [appliedIds |-> {}, store |-> s]    \* catch
  ELSE IF MIGRATIONS_TABLE \notin DOMAIN s.tables THEN [appliedIds |-> {}, store |-> s]
  ELSE [appliedIds |-> DOMAIN s.records, store |-> s]

RECURSIVE BuildChain2(_, _, _, _, _)
\* The loop of the second copy: onProgress is called while the chain is
\* built, appliedMigrationIds (acc.newlyApplied) is still empty then.
BuildChain2(sortedMigrations, appliedIds, total, i, acc) ==
  IF i > Len(sortedMigrations) THEN acc
  ELSE
    LET migration == sortedMigrations[i]
        isNewMigration == migration.id \notin appliedIds
        version == [ versionNumber |-> i,
                     stores |-> VersionStores(migration),
                     isNewMigration |-> isNewMigration,
                     migration |-> migration,
                     progressIndex |-> 0 ]
    IN BuildChain2(sortedMigrations, appliedIds, total, i + 1,
         [ chain |-> Append(acc.chain, version),
           newlyApplied |-> acc.newlyApplied,
           progress |-> IF isNewMigration
                          THEN Append(acc.progress,
                                 Ev("onProgress", migration.id,
                                    Len(acc.newlyApplied) + 1, total))
                          ELSE acc.progress ])

\* The upgrade callback of the second copy: no onProgress, and the id is
\* pushed on appliedMigrationIds once its record is inserted.
upgrade2(version, total, tx, t, options) ==
  UpgradeBody(version.migration, tx, <<>>, t, <<version.migration.id>>, options)

Plan2(r) ==
  /\ run[r].pc = "getApplied"
  /\ LET sortedMigrations == run[r].sortedMigrations
         got == getAppliedMigrations2(store)
         appliedIds == got.appliedIds
         pendingMigrations == SelectSeq(sortedMigrations, LAMBDA m : m.id \notin appliedIds)
         skippedMigrations == SelectSeq(sortedMigrations, LAMBDA m : m.id \in appliedIds)
         planned == [run[r] EXCEPT !.appliedIds = appliedIds,
                                   !.pendingMigrations = pendingMigrations,
                                   !.skippedMigrations = skippedMigrations]
         built == BuildChain2(sortedMigrations, appliedIds, Len(pendingMigrations), 1,
                              [chain |-> <<>>, newlyApplied |-> <<>>, progress |-> <<>>])
     IN /\ store' = got.store
        /\ run' = [run EXCEPT ![r] =
                    IF run[r].dryRun
                      THEN [planned EXCEPT !.pc = "resolved",
                              !.result = DryRunResult(sortedMigrations, skippedMigrations)]
                    ELSE IF run[r].options.onProgress = "throws" /\ built.progress # <<>>
                      THEN [planned EXCEPT !.pc = "rejected",
                              !.error = "onProgress threw",
                              !.log = <<built.progress[1]>>]
                      ELSE [planned EXCEPT !.pc = "opening",
                              !.chain = built.chain,
                              !.newlyApplied = built.newlyApplied,
                              !.log = built.progress]]
  /\ UNCHANGED <<now, coordVars, toolVars>>

UpgradeStep2(r) ==
  /\ run[r].pc = "opening"
  /\ store.version < Len(run[r].chain)
  /\ LET v == store.version + 1
     IN InstallVersion(r, v, upgrade2(run[r].chain[v], Len(run[r].pendingMigrations),
                                      store, now, run[r].options))
  /\ UNCHANGED <<now, coordVars, toolVars>>

Init ==
  /\ store = NoStore
  /\ now = 0
  /\ run = [r \in Runners |-> IdleRun]
  /\ coord = [c \in Tabs |-> NoCoordinator]
  /\ inbox = [c \in Tabs |-> <<>>]
  /\ calls = 0
  /\ tool = NoCall

Next ==
  \E r \in SeqRunners : \/ Call(r) \/ Rerun(r) \/ Return(r)
                    \/ Plan(r) \/ UpgradeStep(r) \/ Opened(r)

Spec == Init /\ [][Next]_vars

Next2 ==
  \E r \in SeqRunners : \/ Call(r) \/ Rerun(r) \/ Return(r)
                    \/ Plan2(r) \/ UpgradeStep2(r) \/ Opened(r)

Spec2 == Init /\ [][Next2]_vars

(***************************************************************************)
(* runMigrations with notification callbacks that may throw                *)
(***************************************************************************)
\* A call with a well-formed list and any behaviour of the three callbacks.
CallWithOptions(r) ==
  /\ run[r].pc = "idle"
  /\ now < MaxNotifyRuns
  /\ \E items \in WellFormed, dryRun \in BOOLEAN, options \in Behaviours :
       Enter(r, [isArray |-> TRUE, items |-> items], dryRun, <<>>, options)

NextNotify ==
  \E r \in SeqRunners : \/ CallWithOptions(r) \/ Return(r)
                    \/ Plan(r) \/ UpgradeStep(r) \/ Opened(r)

SpecNotify == Init /\ [][NextNotify]_vars

NextNotify2 ==
  \E r \in SeqRunners : \/ CallWithOptions(r) \/ Return(r)
                    \/ Plan2(r) \/ UpgradeStep2(r) \/ Opened(r)

SpecNotify2 == Init /\ [][NextNotify2]_vars

(***************************************************************************)
(* Two runMigrations calls in flight on the same store                     *)
(***************************************************************************)
\* The first call: a non-dry run of a well-formed set on the store that does
\* not exist yet.
CallOnFresh(r) ==
  /\ \A q \in Runners : run[q].pc = "idle"
  /\ store = NoStore
  /\ \E items \in WellFormed :
       Enter(r, [isArray |-> TRUE, items |-> items], FALSE, <<>>, Quiet)

\* A second caller passes the same set, without coordination, while the
\* first call is in flight or once it has settled.
CallSameSet(r) ==
  /\ run[r].pc = "idle"
  /\ \E q \in Runners \ {r} :
       /\ run[q].pc # "idle"
       /\ Enter(r, run[q].migrations, FALSE, <<>>, Quiet)

\* Each call proceeds from await to await; the steps of the two interleave.
NextConcurrent ==
  \E r \in Runners : \/ CallOnFresh(r) \/ CallSameSet(r)
                     \/ Plan(r) \/ UpgradeStep(r) \/ Opened(r)

SpecConcurrent == Init /\ [][NextConcurrent]_vars

RECURSIVE OpenFrom(_, _, _, _, _)
\* db.open() as a whole, from the store s: the versions above s.version
\* installed one after the other until one fails.
OpenFrom(s, chain, total, t, options) ==
  IF s.version > Len(chain) THEN [store |-> s, error |-> "VersionError"]
  ELSE IF s.version = Len(chain) THEN [store |-> s, error |-> ""]
  ELSE
    LET v == s.version + 1
        schema == SchemaAt(chain, v)
        res == upgrade(chain[v], total, s, t, options)
    IN IF ~chain[v].isNewMigration
         THEN OpenFrom(CommitVersion(s, v, schema, s), chain, total, t, options)
       ELSE IF res.ok
         THEN OpenFrom(CommitVersion(s, v, schema, res.tx), chain, total, t, options)
       ELSE [store |-> AbortVersion(s, v, schema, res.tx), error |-> res.error]

(***************************************************************************)
(* MigrationCoordinator: the channel                                       *)
(***************************************************************************)
Msg(type, tabId, error) == [type |-> type, tabId |-> tabId, error |-> error]

\* The coordinators and what is in flight between them.
World == [coord |-> coord, inbox |-> inbox]

\* this.broadcast(message): posted to the open channels of the other tabs;
\* nothing is posted when this.channel is null.
broadcast(w, c, type, error) ==
  IF ~w.coord[c].channel THEN w
  ELSE [ coord |-> [w.coord EXCEPT ![c].sent = Append(@, Msg(type, c, error))],
         inbox |-> [d \in Tabs |->
                      IF d # c /\ w.coord[d].channel
                        THEN Append(w.inbox[d], Msg(type, c, error))
                        ELSE w.inbox[d]] ]

hasLock(co) == co.lock

\* Mutant: lock_released is broadcast whether or not the lock is held.
releaseLock_unconditional(w, c) ==
  [broadcast(w, c, "lock_released", "")
     EXCEPT !.coord[c].lock = FALSE, !.coord[c].granted = FALSE]

releaseLock(w, c) ==
  IF w.coord[c].lock
    THEN [broadcast(w, c, "lock_released", "")
            EXCEPT !.coord[c].lock = FALSE, !.coord[c].granted = FALSE]
    ELSE [w EXCEPT !.coord[c].granted = FALSE]

\* destroy(): releaseLock, close the channel (what was posted to it and not
\* yet delivered is dropped), clear the listeners.
destroy(w, c) ==
  LET released == releaseLock(w, c)
  IN [ coord |-> [released.coord EXCEPT ![c].channel = FALSE, ![c].listening = FALSE],
       inbox |-> [released.inbox EXCEPT ![c] = <<>>] ]

(***************************************************************************)
(* runWithCoordination, from the return of waitForLock on                  *)
(***************************************************************************)
LOCK_TIMEOUT_ERROR == "Failed to acquire migration lock"

\* How the work callback settles: it resolves, rejects with an Error, or
\* rejects with null (a value without properties).
WorkOutcomes == {"resolves", "rejects", "rejects null"}

\* Mutant: the call settles without the finally block.
settle_noDestroy(w, c, job, error) ==
  [w EXCEPT !.coord[c].job = job, !.coord[c].jobError = error]

\* finally { coordinator.destroy() }, then the call settles.
settle(w, c, job, error) ==
  [destroy(w, c) EXCEPT !.coord[c].job = job, !.coord[c].jobError = error]

\* catch (error) { notifyMigrationFailed(error as Error); throw error }:
\* reading the message of null throws a TypeError in place of the error.
catchBlock(w, c, error) ==
  IF error = "null" THEN settle(w, c, "rejected", "TypeError")
  ELSE settle(broadcast(w, c, "migration_failed", error), c, "rejected", error)

\* Mutant: the value waitForLock returned is not looked at.
lockAcquired_ignoresResult(w, c, acquired) ==
  [broadcast(w, c, "migration_started", "")
     EXCEPT !.coord[c].job = "work", !.coord[c].workCalls = @ + 1]

\* After waitForLock: the lock-timeout error, or notifyMigrationStarted and
\* the call of the work callback.
lockAcquired(w, c, acquired) ==
  IF ~acquired
    THEN catchBlock([w EXCEPT !.coord[c].named = w.coord[c].lockTimeout], c,
                    LOCK_TIMEOUT_ERROR)
    ELSE [broadcast(w, c, "migration_started", "")
            EXCEPT !.coord[c].job = "work", !.coord[c].workCalls = @ + 1]

workSettled(w, c) ==
  IF w.coord[c].work = "resolves"
    THEN settle(broadcast(w, c, "migration_completed", ""), c, "resolved", "")
    ELSE catchBlock(w, c, IF w.coord[c].work = "rejects" THEN "work failed" ELSE "null")

(***************************************************************************)
(* MigrationCoordinator: acquireLock, checkForActiveLock, waitForLock      *)
(***************************************************************************)
\* waitForLock returns result to its caller.
waitReturned(w, c, result) ==
  LET r == [w EXCEPT !.coord[c].wait = "idle", !.coord[c].backoffLeft = 0,
                     !.coord[c].waited = IF result THEN "true" ELSE "false"]
  IN IF w.coord[c].waiter = "job" THEN lockAcquired(r, c, result) ELSE r

\* Mutant: waitForLock returns false after the first failed attempt.
acquireReturned_givesUp(w, c, result) ==
  LET r == [w EXCEPT !.coord[c].acquire = "idle", !.coord[c].windowLeft = 0,
                     !.coord[c].granted = @ \/ result]
  IN IF w.coord[c].caller = "waitForLock" THEN waitReturned(r, c, result)
     ELSE [r EXCEPT !.coord[c].acquired = IF result THEN "true" ELSE "false"]

\* acquireLock returns result to its caller; waitForLock returns true on
\* true and starts its pause on false.
acquireReturned(w, c, result) ==
  LET r == [w EXCEPT !.coord[c].acquire = "idle", !.coord[c].windowLeft = 0,
                     !.coord[c].granted = @ \/ result]
  IN IF w.coord[c].caller = "waitForLock"
       THEN IF result THEN waitReturned(r, c, TRUE)
            ELSE [r EXCEPT !.coord[c].wait = "backoff", !.coord[c].backoffLeft = BACKOFF]
       ELSE [r EXCEPT !.coord[c].acquired = IF result THEN "true" ELSE "false"]

\* checkForActiveLock up to its promise: the listener, the ping, the timer.
checkForActiveLock(w, c) ==
  [broadcast([w EXCEPT !.coord[c].listening = TRUE], c, "ping", "")
     EXCEPT !.coord[c].acquire = "window", !.coord[c].windowLeft = DISCOVERY_WINDOW]

\* acquireLock up to its await: without a channel it returns true at once.
acquireLock(w, c, caller) ==
  LET called == [w EXCEPT !.coord[c].caller = caller]
  IN IF ~w.coord[c].channel THEN acquireReturned(called, c, TRUE)
     ELSE checkForActiveLock(called, c)

\* Mutant: the lock is taken whatever checkForActiveLock found.
acquireLockRest_ignoresActiveLock(w, c, hasActiveLock) ==
  acquireReturned(
    broadcast([w EXCEPT !.coord[c].lock = TRUE], c, "lock_acquired", ""), c, TRUE)

\* acquireLock after its await: false if another tab announced a lock, else
\* the lock is taken and announced.
acquireLockRest(w, c, hasActiveLock) ==
  IF hasActiveLock THEN acquireReturned(w, c, FALSE)
  ELSE acquireReturned(
         broadcast([w EXCEPT !.coord[c].lock = TRUE], c, "lock_acquired", ""), c, TRUE)

\* The head of the loop of waitForLock.
waitLoop(w, c) ==
  IF w.coord[c].elapsed < w.coord[c].maxWait
    THEN acquireLock([w EXCEPT !.coord[c].wait = "attempt", !.coord[c].attempts = @ + 1],
                     c, "waitForLock")
    ELSE waitReturned(w, c, FALSE)

waitForLock(w, c, timeout, waiter) ==
  waitLoop([w EXCEPT !.coord[c].waiter = waiter, !.coord[c].maxWait = timeout,
                     !.coord[c].elapsed = 0, !.coord[c].attempts = 0,
                     !.coord[c].waited = "none"], c)

\* channel.onmessage: the listeners of the message's type are called; the one
\* of checkForActiveLock resolves its promise with true.
onmessage(w, c, msg) ==
  IF /\ w.coord[c].channel /\ w.coord[c].listening
     /\ msg.type = "lock_acquired" /\ msg.tabId # c
    THEN acquireLockRest([w EXCEPT !.coord[c].listening = FALSE], c, TRUE)
    ELSE w

(***************************************************************************)
(* The calls on the coordinators, the deliveries and the timers            *)
(***************************************************************************)
\* The history fields: holders loses the tabs that no longer hold the lock,
\* settledBefore the tabs that made a new coordinator.
Track(cs) ==
  [c \in Tabs |->
     [cs[c] EXCEPT !.holders = {d \in @ : cs[d].lock /\ cs[d].channel},
                   !.settledBefore = {d \in @ : cs[d].job \in {"resolved", "rejected"}}]]

Commit(w) == coord' = Track(w.coord) /\ inbox' = w.inbox

Called == calls < MaxCalls /\ calls' = calls + 1 /\ UNCHANGED <<store, now, run, toolVars>>

\* The tab has no coordinator in use: none was made, or it was destroyed
\* and nothing of it is still running.
Free(c) ==
  /\ ~coord[c].channel
  /\ coord[c].acquire = "idle" /\ coord[c].wait = "idle"
  /\ coord[c].job \notin {"waitForLock", "work"}

\* The coordinator of tab c is in the hands of the tab's code.
Owned(c) == coord[c].made /\ coord[c].job = "none"

\* new MigrationCoordinator(dbName), BroadcastChannel defined or not
Construct(c) ==
  /\ Free(c)
  /\ \E hasChannel \in BOOLEAN :
       Commit([coord |-> [coord EXCEPT ![c] = [NoCoordinator EXCEPT
                                                !.made = TRUE,
                                                !.channel = hasChannel,
                                                !.hasChannel = hasChannel,
                                                !.settledBefore =
                                                  {d \in Tabs \ {c} :
                                                     coord[d].job \in {"resolved", "rejected"}}]],
               inbox |-> [inbox EXCEPT ![c] = <<>>]])
  /\ Called

AcquireLock(c) ==
  /\ Owned(c) /\ coord[c].acquire = "idle" /\ coord[c].wait = "idle"
  /\ Commit(acquireLock(World, c, "user"))
  /\ Called

ReleaseLock(c) ==
  /\ Owned(c)
  /\ Commit(releaseLock(World, c))
  /\ Called

Destroy(c) ==
  /\ Owned(c)
  /\ Commit(destroy(World, c))
  /\ Called

WaitForLock(c) ==
  /\ Owned(c) /\ coord[c].acquire = "idle" /\ coord[c].wait = "idle"
  /\ \E timeout \in LockTimeouts : Commit(waitForLock(World, c, timeout, "user"))
  /\ Called

\* runWithCoordination(dbName, migrationFn, {lockTimeout}) up to its first await
RunWithCoordination(c) ==
  /\ Free(c)
  /\ \E hasChannel \in BOOLEAN, work \in WorkOutcomes, lockTimeout \in LockTimeouts :
       LET coordinator == [NoCoordinator EXCEPT
                             !.made = TRUE, !.channel = hasChannel,
                             !.hasChannel = hasChannel,
                             !.job = "waitForLock", !.work = work,
                             !.lockTimeout = lockTimeout,
                             !.holders = {d \in Tabs \ {c} :
                                            coord[d].lock /\ coord[d].channel}]
           w == [coord |-> [coord EXCEPT ![c] = coordinator],
                 inbox |-> [inbox EXCEPT ![c] = <<>>]]
       IN Commit(waitForLock(w, c, lockTimeout, "job"))
  /\ Called

\* The work callback settles.
WorkSettles(c) ==
  /\ coord[c].job = "work"
  /\ Commit(workSettled(World, c))
  /\ UNCHANGED <<calls, store, now, run, toolVars>>

\* A posted message reaches the channel of tab c.
Deliver(c) ==
  /\ inbox[c] # <<>>
  /\ Commit(onmessage([World EXCEPT !.inbox[c] = Tail(@)], c, Head(inbox[c])))
  /\ UNCHANGED <<calls, store, now, run, toolVars>>

\* The timer of checkForActiveLock fires: no lock was announced.
WindowEnd(c) ==
  /\ coord[c].acquire = "window" /\ coord[c].windowLeft = 0
  /\ Commit(acquireLockRest([World EXCEPT !.coord[c].listening = FALSE], c, FALSE))
  /\ UNCHANGED <<calls, store, now, run, toolVars>>

\* The pause of waitForLock is over.
BackoffEnd(c) ==
  /\ coord[c].wait = "backoff" /\ coord[c].backoffLeft = 0
  /\ Commit(waitLoop(World, c))
  /\ UNCHANGED <<calls, store, now, run, toolVars>>

\* Time advances by one unit: every posted message has been delivered (zero
\* delivery latency) and no timer is due.
Tick ==
  /\ \A c \in Tabs : inbox[c] = <<>>
  /\ \A c \in Tabs : /\ coord[c].acquire = "window" => coord[c].windowLeft > 0
                     /\ coord[c].wait = "backoff" => coord[c].backoffLeft > 0
  /\ \E c \in Tabs : coord[c].acquire = "window" \/ coord[c].wait = "backoff"
  /\ coord' = [c \in Tabs |->
                [coord[c] EXCEPT
                   !.windowLeft = IF @ > 0 THEN @ - 1 ELSE 0,
                   !.backoffLeft = IF @ > 0 THEN @ - 1 ELSE 0,
                   !.elapsed = IF coord[c].wait # "idle" /\ @ < coord[c].maxWait
                                 THEN @ + 1 ELSE @]]
  /\ UNCHANGED <<inbox, calls, store, now, run, toolVars>>

NextCoord ==
  \/ \E c \in Tabs : \/ Construct(c) \/ AcquireLock(c) \/ ReleaseLock(c) \/ Destroy(c)
                     \/ WaitForLock(c) \/ RunWithCoordination(c)
                     \/ WorkSettles(c) \/ Deliver(c) \/ WindowEnd(c) \/ BackoffEnd(c)
  \/ Tick

SpecCoord == Init /\ [][NextCoord]_vars

\* The coordinators in the hands of the tabs' code alone.  The event loop
\* delivers every posted message and fires every due timer, and time passes.
NextWait ==
  \/ \E c \in Tabs : \/ Construct(c) \/ AcquireLock(c) \/ ReleaseLock(c) \/ Destroy(c)
                     \/ WaitForLock(c)
                     \/ Deliver(c) \/ WindowEnd(c) \/ BackoffEnd(c)
  \/ Tick

SpecWait ==
  /\ Init /\ [][NextWait]_vars
  /\ WF_vars(Tick)
  /\ \A c \in Tabs : WF_vars(Deliver(c)) /\ WF_vars(WindowEnd(c)) /\ WF_vars(BackoffEnd(c))

(***************************************************************************)
(* computeExpectedSchema                                                   *)
(***************************************************************************)
RECURSIVE ExpectedFold_keepsDeleted(_, _, _)
\* Mutant: a null entry leaves the table as it was.
ExpectedFold_keepsDeleted(sorted, i, schema) ==
  IF i > Len(sorted) THEN schema
  ELSE LET stores == sorted[i].stores
           set == {t \in DOMAIN stores : stores[t] # NULL}
       IN ExpectedFold_keepsDeleted(sorted, i + 1,
            [t \in DOMAIN schema \cup set |-> IF t \in set THEN stores[t] ELSE schema[t]])

RECURSIVE ExpectedFold(_, _, _)
\* The loop over the sorted migrations from index i on: a null entry deletes
\* the table from schema, any other entry sets it.
ExpectedFold(sorted, i, schema) ==
  IF i > Len(sorted) THEN schema
  ELSE LET stores == sorted[i].stores
           kept == {t \in DOMAIN schema : ~(t \in DOMAIN stores /\ stores[t] = NULL)}
           set == {t \in DOMAIN stores : stores[t] # NULL}
       IN ExpectedFold(sorted, i + 1,
            [t \in kept \cup set |-> IF t \in set THEN stores[t] ELSE schema[t]])

\* Mutant: the migrations are folded in the order of the input.
computeExpectedSchema_inputOrder(migrations) == ExpectedFold(migrations, 1, NoStores)

computeExpectedSchema(migrations) == ExpectedFold(SortById(migrations), 1, NoStores)

(***************************************************************************)
(* The inputs of the functions of the snapshot and squash modules          *)
(***************************************************************************)
\* The stores maps of these inputs: none, a table declared with plain,
\* modifier-prefixed and compound index specifications, and deletions.
StoreDeltas ==
  { NoStores,
    [t \in {"users"} |-> "id, email"],
    [t \in {"users"} |-> "++id, &email, *tags"],
    [t \in {"users"} |-> NULL],
    [t \in {"users", "posts"} |-> IF t = "users" THEN "id, [name+email]" ELSE "++id"],
    [t \in {"posts"} |-> NULL] }

\* A migration value with its optional callbacks present ("fn") or absent.
ToolMig(id, stores, up, down, validateAfter) ==
  [ id |-> id, name |-> "m" \o ToString(id), stores |-> stores,
    up |-> up, down |-> down, validateAfter |-> validateAfter ]

\* Every arrangement of every non-empty set of ids.
IdPerms ==
  UNION { {s \in [1..Cardinality(S) -> S] : \A i, j \in DOMAIN s : i # j => s[i] # s[j]}
          : S \in (SUBSET (1..MaxId)) \ {{}} }

\* The lists with these ids, each migration with any stores map.
SchemaLists(ids) ==
  { [i \in DOMAIN ids |-> ToolMig(ids[i], d[i], "none", "none", "none")]
    : d \in [DOMAIN ids -> StoreDeltas] }

(***************************************************************************)
(* Calls of computeExpectedSchema                                          *)
(***************************************************************************)
\* computeExpectedSchema(migrations): migrations.sort() sorts the caller's
\* list in place.
ComputeExpectedSchema ==
  /\ tool = NoCall
  /\ \E ids \in IdPerms : \E migrations \in SchemaLists(ids) :
       tool' = [ op |-> "computeExpectedSchema",
                 args |-> [migrations |-> migrations],
                 left |-> [migrations |-> SortById(migrations)],
                 out |-> computeExpectedSchema(migrations) ]
  /\ UNCHANGED <<store, now, run, coordVars>>

NextExpected == ComputeExpectedSchema

SpecExpected == Init /\ [][NextExpected]_vars

(***************************************************************************)
(* squashMigrations, renumberMigrations, validateSquash                    *)
(***************************************************************************)
NO_MIGRATIONS_TO_SQUASH == "No migrations to squash with the given cutoff"

\* The options of squashMigrations: baseName and preserveUpFunctions may be
\* left out (NULL, FALSE).
SquashOptions ==
  [cutoffId : 0..MaxId, baseName : {NULL, "squashed"}, preserveUpFunctions : BOOLEAN]

\* What squashMigrations does with its two halves: the base migration with
\* the schema of the squashed half and, if asked for, one up function that
\* calls the up functions of that half in order (upFunctions names them by
\* the id of their migration).
Squashed(toSquash, toKeep, options) ==
  IF Len(toSquash) = 0
    THEN [threw |-> TRUE, error |-> NO_MIGRATIONS_TO_SQUASH]
    ELSE
      LET baseName == IF options.baseName = NULL THEN "base_migration"
                      ELSE options.baseName
          finalSchema == computeExpectedSchema(toSquash)
          upFunctions == IF options.preserveUpFunctions
                           THEN MapId(SelectSeq(toSquash, LAMBDA m : m.up # "none"))
                           ELSE <<>>
      IN [ threw |-> FALSE,
           baseMigration |->
             [ id |-> 1, name |-> baseName, stores |-> finalSchema,
               up |-> IF Len(upFunctions) > 0 THEN "combined" ELSE "none",
               down |-> "none", validateAfter |-> "none" ],
           upFunctions |-> upFunctions,
           squashedIds |-> MapId(toSquash),
           remainingMigrations |-> toKeep ]

\* Mutant: the migration at the cutoff falls into neither half.
squashMigrations_losesCutoff(migrations, options) ==
  LET sorted == SortById(migrations)
  IN Squashed(SelectSeq(sorted, LAMBDA m : m.id < options.cutoffId),
              SelectSeq(sorted, LAMBDA m : m.id > options.cutoffId), options)

\* Mutant: the list is split in its input order.
squashMigrations_unsorted(migrations, options) ==
  Squashed(SelectSeq(migrations, LAMBDA m : m.id <= options.cutoffId),
           SelectSeq(migrations, LAMBDA m : m.id > options.cutoffId), options)

squashMigrations(migrations, options) ==
  LET sorted == SortById(migrations)
  IN Squashed(SelectSeq(sorted, LAMBDA m : m.id <= options.cutoffId),
              SelectSeq(sorted, LAMBDA m : m.id > options.cutoffId), options)

\* Mutant: the caller's list is sorted in place.
renumberMigrations_sortsInPlace(migrations, startId) ==
  LET sorted == SortById(migrations)
  IN [ left |-> sorted,
       returned |-> [i \in DOMAIN sorted |-> [sorted[i] EXCEPT !.id = startId + (i - 1)]] ]

\* renumberMigrations(migrations, startId): a sorted copy with new ids; left
\* is the caller's list after the call.
renumberMigrations(migrations, startId) ==
  LET sorted == SortById(migrations)
  IN [ left |-> migrations,
       returned |-> [i \in DOMAIN sorted |-> [sorted[i] EXCEPT !.id = startId + (i - 1)]] ]

\* The warnings of validateSquash for a list of migrations, in order.
SquashWarnings(toSquash) ==
  (IF \E i \in DOMAIN toSquash : toSquash[i].up # "none" THEN <<"up">> ELSE <<>>)
  \o (IF \E i \in DOMAIN toSquash : toSquash[i].down # "none" THEN <<"down">> ELSE <<>>)
  \o (IF \E i \in DOMAIN toSquash : toSquash[i].validateAfter # "none"
        THEN <<"validateAfter">> ELSE <<>>)

\* Mutant: the migrations above the cutoff are looked at too.
validateSquash_looksAtAll(migrations, cutoffId) ==
  [valid |-> TRUE, warnings |-> SquashWarnings(migrations)]

validateSquash(migrations, cutoffId) ==
  [ valid |-> TRUE,
    warnings |-> SquashWarnings(SelectSeq(migrations, LAMBDA m : m.id <= cutoffId)) ]

\* The lists these functions are called with, their unique ids ascending,
\* descending or rotated (IdSeqs): any stores map and an up function on the
\* migrations with an odd id, or the same stores map and any callbacks.
SquashLists(ids) ==
  { [i \in DOMAIN ids |->
       ToolMig(ids[i], d[i], IF ids[i] % 2 = 1 THEN "fn" ELSE "none", "none", "none")]
    : d \in [DOMAIN ids -> StoreDeltas] }

Presence == {"none", "fn"}

CallbackLists(ids) ==
  { [i \in DOMAIN ids |->
       ToolMig(ids[i], [t \in {"users"} |-> "id, email"], cb[i][1], cb[i][2], cb[i][3])]
    : cb \in [DOMAIN ids -> Presence \X Presence \X Presence] }

\* The startId argument of renumberMigrations: left out, or a number.
StartIds == {<<>>, <<0>>, <<1>>, <<5>>}

SquashMigrations ==
  /\ tool = NoCall
  /\ \E ids \in IdSeqs : \E migrations \in SquashLists(ids), options \in SquashOptions :
       tool' = [ op |-> "squashMigrations",
                 args |-> [migrations |-> migrations, options |-> options],
                 left |-> [migrations |-> migrations],
                 out |-> squashMigrations(migrations, options) ]
  /\ UNCHANGED <<store, now, run, coordVars>>

RenumberMigrations ==
  /\ tool = NoCall
  /\ \E ids \in IdSeqs : \E migrations \in SquashLists(ids), startId \in StartIds :
       LET res == renumberMigrations(migrations,
                                     IF startId = <<>> THEN 1 ELSE startId[1])
       IN tool' = [ op |-> "renumberMigrations",
                    args |-> [migrations |-> migrations, startId |-> startId],
                    left |-> [migrations |-> res.left],
                    out |-> res.returned ]
  /\ UNCHANGED <<store, now, run, coordVars>>

ValidateSquash ==
  /\ tool = NoCall
  /\ \E ids \in IdSeqs : \E migrations \in CallbackLists(ids), cutoffId \in 0..MaxId :
       tool' = [ op |-> "validateSquash",
                 args |-> [migrations |-> migrations, cutoffId |-> cutoffId],
                 left |-> [migrations |-> migrations],
                 out |-> validateSquash(migrations, cutoffId) ]
  /\ UNCHANGED <<store, now, run, coordVars>>

\* An entry of the trace of a call of baseMigration.up.
UpEv(kind, id) == [kind |-> kind, id |-> id]

RECURSIVE combinedUp_continues(_, _, _)
\* Mutant: an up function that throws does not end the loop.
combinedUp_continues(upFunctions, i, throws) ==
  IF i > Len(upFunctions) THEN [trace |-> <<>>, settled |-> "resolved"]
  ELSE LET id == upFunctions[i]
           rest == combinedUp_continues(upFunctions, i + 1, throws)
       IN [ trace |-> <<UpEv("called", id),
                        UpEv(IF id \in throws THEN "threw" ELSE "returned", id)>>
                        \o rest.trace,
            settled |-> rest.settled ]

RECURSIVE combinedUp(_, _, _)
\* baseMigration.up, the loop from index i on: each up function is called
\* and awaited; one that throws rejects the combined up on the spot.
combinedUp(upFunctions, i, throws) ==
  IF i > Len(upFunctions) THEN [trace |-> <<>>, settled |-> "resolved"]
  ELSE LET id == upFunctions[i]
       IN IF id \in throws
            THEN [ trace |-> <<UpEv("called", id), UpEv("threw", id)>>,
                   settled |-> "rejected" ]
            ELSE LET rest == combinedUp(upFunctions, i + 1, throws)
                 IN [ trace |-> <<UpEv("called", id), UpEv("returned", id)>>
                                  \o rest.trace,
                      settled |-> rest.settled ]

\* The caller runs the up function of the base migration it was just given;
\* any of the preserved up functions may throw.
BaseMigrationUp ==
  /\ tool.op = "squashMigrations"
  /\ ~tool.out.threw
  /\ tool.out.baseMigration.up = "combined"
  /\ \E throws \in SUBSET {tool.out.upFunctions[i] : i \in DOMAIN tool.out.upFunctions} :
       tool' = [ op |-> "baseMigration.up",
                 args |-> [migrations |-> tool.args.migrations,
                           options |-> tool.args.options,
                           throws |-> throws],
                 left |-> tool.left,
                 out |-> combinedUp(tool.out.upFunctions, 1, throws) ]
  /\ UNCHANGED <<store, now, run, coordVars>>

NextSquash == SquashMigrations \/ RenumberMigrations \/ ValidateSquash \/ BaseMigrationUp

SpecSquash == Init /\ [][NextSquash]_vars

(***************************************************************************)
(* Index specification strings                                             *)
(***************************************************************************)
\* One comma-separated part of a specification, trimmed: its leading
\* modifier characters, and its body, written in brackets if compound.
Token(prefix, body, compound) == [prefix |-> prefix, body |-> body, compound |-> compound]

Field(body) == Token("", body, FALSE)

\* schema.split(',').map(s => s.trim()) for the specifications in use.
Split(schema) ==
  CASE schema = "" -> <<Field("")>>
    [] schema = "id" -> <<Field("id")>>
    [] schema = "id, email" -> <<Field("id"), Field("email")>>
    [] schema = "id, email, name" -> <<Field("id"), Field("email"), Field("name")>>
    [] schema = "++id" -> <<Token("++", "id", FALSE)>>
    [] schema = "++id, &email, *tags" ->
         <<Token("++", "id", FALSE), Token("&", "email", FALSE), Token("*", "tags", FALSE)>>
    [] schema = "id, [name+email]" -> <<Field("id"), Token("", "name+email", TRUE)>>
    [] schema = TRACKING_SCHEMA -> <<Field("id"), Field("name"), Field("appliedAt")>>

\* The text of a part without its modifier characters.
Unprefixed(token) ==
  IF token.compound THEN "[" \o token.body \o "]" ELSE token.body

\* s.length > 0
NonEmpty(token) == token.prefix # "" \/ token.compound \/ token.body # ""

\* parseSchemaString: the non-empty parts, a part in brackets without its
\* brackets, any other part without its leading modifier characters.
parseSchemaString(schema) ==
  LET parts == SelectSeq(Split(schema), NonEmpty)
  IN [i \in DOMAIN parts |->
        IF parts[i].prefix = "" /\ parts[i].compound THEN parts[i].body
        ELSE Unprefixed(parts[i])]

(***************************************************************************)
(* Snapshots                                                               *)
(***************************************************************************)
\* The order of the properties of a TableSchema object: as createSnapshot
\* writes them, or sorted by name (a snapshot file rewritten by a tool that
\* sorts keys, read back by loadSnapshotFromFile).
AS_CREATED == <<"name", "primaryKey", "indexes", "autoIncrement">>
KEYS_SORTED == <<"autoIncrement", "indexes", "name", "primaryKey">>

TableSchema(name, primaryKey, indexes, autoIncrement) ==
  [ name |-> name, primaryKey |-> primaryKey, indexes |-> indexes,
    autoIncrement |-> autoIncrement, keys |-> AS_CREATED ]

\* table.schema of the store's table: the first part of the specification
\* is the primary key, the others are indexes; a name is the part without
\* its modifiers, brackets of a compound index included.
DexieSchema(schema) ==
  LET parts == Split(schema)
  IN [ primKey |-> [name |-> Unprefixed(parts[1]), auto |-> parts[1].prefix = "++"],
       indexes |-> [i \in 1..(Len(parts) - 1) |-> [name |-> Unprefixed(parts[i + 1])]] ]

\* The TableSchema createSnapshot builds for one table of db.tables.
SnapshotTable(name, schema) ==
  TableSchema(name,
              IF schema.primKey.name # "" THEN schema.primKey.name ELSE "id",
              [i \in DOMAIN schema.indexes |-> schema.indexes[i].name],
              schema.primKey.auto)

Max(S) == CHOOSE x \in S : \A y \in S : y <= x

\* createSnapshot(db, migrations) at time t, db an open store.
createSnapshot(db, migrations, t) ==
  [ version |-> db.version,
    timestamp |-> t,
    tables |-> [name \in DOMAIN db.tables |->
                  SnapshotTable(name, DexieSchema(db.tables[name]))],
    lastMigrationId |-> IF Len(migrations) > 0
                          THEN Max({migrations[i].id : i \in DOMAIN migrations})
                          ELSE 0 ]

\* The keys of an object in a fixed order (the model's stand-in for the
\* order of insertion).
TableNames == <<"users", "posts", "kv", MIGRATIONS_TABLE>>
Keys(object) == SelectSeq(TableNames, LAMBDA name : name \in DOMAIN object)

\* name.startsWith('_')
StartsWithUnderscore(name) == name = MIGRATIONS_TABLE

\* !expected[tableName]: no such key, null, or the empty string
Falsy(expected, name) ==
  name \notin DOMAIN expected \/ expected[name] = NULL \/ expected[name] = ""

Finding(kind, table, index) == [kind |-> kind, table |-> table, index |-> index]

Contains(list, x) == \E i \in DOMAIN list : list[i] = x

RECURSIVE Flatten(_)
Flatten(lists) == IF lists = <<>> THEN <<>> ELSE Head(lists) \o Flatten(Tail(lists))

\* The third loop of validateSchema for one expected table: the findings
\* about its indexes, kind "missing index" or "unexpected index".
IndexFindings(current, expected, tableName, kind) ==
  IF tableName \notin DOMAIN current.tables \/ Falsy(expected, tableName) THEN <<>>
  ELSE LET currentTable == current.tables[tableName]
           expectedIndexes == parseSchemaString(expected[tableName])
           currentIndexes == <<currentTable.primaryKey>> \o currentTable.indexes
       IN IF kind = "missing index"
            THEN LET missing == SelectSeq(expectedIndexes,
                                          LAMBDA x : ~Contains(currentIndexes, x))
                 IN [i \in DOMAIN missing |-> Finding(kind, tableName, missing[i])]
            ELSE LET extra == SelectSeq(currentIndexes,
                                        LAMBDA x : ~Contains(expectedIndexes, x))
                 IN [i \in DOMAIN extra |-> Finding(kind, tableName, extra[i])]

validateSchema(current, expected) ==
  LET expectedTables == Keys(expected)
      currentTables == SelectSeq(Keys(current.tables),
                                 LAMBDA name : ~StartsWithUnderscore(name))
      missingTables == SelectSeq(expectedTables,
                                 LAMBDA name : name \notin DOMAIN current.tables)
      unexpectedTables == SelectSeq(currentTables, LAMBDA name : Falsy(expected, name))
      errors ==
        [i \in DOMAIN missingTables |-> Finding("Missing table", missingTables[i], "")]
        \o Flatten([i \in DOMAIN expectedTables |->
                      IndexFindings(current, expected, expectedTables[i], "missing index")])
      warnings ==
        [i \in DOMAIN unexpectedTables |->
           Finding("Unexpected table", unexpectedTables[i], "")]
        \o Flatten([i \in DOMAIN expectedTables |->
                      IndexFindings(current, expected, expectedTables[i], "unexpected index")])
  IN [valid |-> Len(errors) = 0, errors |-> errors, warnings |-> warnings]

\* JSON.stringify of a TableSchema object: its properties in their order.
Stringify(table) ==
  <<table.keys, [ name |-> table.name, primaryKey |-> table.primaryKey,
                  indexes |-> table.indexes, autoIncrement |-> table.autoIncrement ]>>

compareSnapshots(oldSnapshot, newSnapshot) ==
  LET oldTables == DOMAIN oldSnapshot.tables
      newTables == DOMAIN newSnapshot.tables
  IN [ added |-> SelectSeq(Keys(newSnapshot.tables), LAMBDA table : table \notin oldTables),
       removed |-> SelectSeq(Keys(oldSnapshot.tables), LAMBDA table : table \notin newTables),
       modified |-> SelectSeq(Keys(newSnapshot.tables),
                      LAMBDA table :
                        /\ table \in oldTables
                        /\ Stringify(oldSnapshot.tables[table])
                             # Stringify(newSnapshot.tables[table])) ]

(***************************************************************************)
(* Calls of the snapshot functions                                         *)
(***************************************************************************)
\* Valid migration lists whose callbacks succeed: unique ids, ascending,
\* descending or rotated (IdSeqs), each migration with any stores map.
ValidLists(ids) ==
  { [i \in DOMAIN ids |-> [Mig(ids[i], CallbacksFor(ids[i])) EXCEPT !.stores = d[i]]]
    : d \in [DOMAIN ids -> StoreDeltas] }

\* runMigrations(dbName, migrations) on a database that does not exist yet
\* (first copy, no options): the store once the call has settled.
RunOnFresh(migrations) ==
  LET sortedMigrations == SortById(migrations)
      appliedIds == getAppliedMigrations(NoStore)
      built == BuildChain(sortedMigrations, appliedIds, 1,
                          [chain |-> <<>>, newlyApplied |-> <<>>, progress |-> <<>>])
  IN OpenFrom(NoStore, built.chain, Len(sortedMigrations), 1, Quiet)

\* The tables of the snapshots validateSchema and compareSnapshots are
\* called with: objects as createSnapshot writes them, and one as read from
\* a snapshot file whose keys were sorted.
TableShapes(name) ==
  CASE name = "users" ->
         { TableSchema(name, "id", <<"email">>, FALSE),
           TableSchema(name, "id", <<"email", "tags">>, TRUE),
           TableSchema(name, "id", <<"[name+email]">>, FALSE),
           [TableSchema(name, "id", <<"email">>, FALSE) EXCEPT !.keys = KEYS_SORTED] }
    [] name = "posts" -> { TableSchema(name, "id", <<>>, TRUE) }
    [] name = "kv" -> { TableSchema(name, "id", <<>>, FALSE) }
    [] OTHER -> { TableSchema(name, "id", <<"name", "appliedAt">>, FALSE) }

NameSets == SUBSET {"users", "posts", "kv", MIGRATIONS_TABLE}

SnapshotTables ==
  UNION { {f \in [names -> UNION {TableShapes(n) : n \in names}] :
             \A n \in names : f[n] \in TableShapes(n)}
          : names \in NameSets }

Snapshot(version, timestamp, tables) ==
  [version |-> version, timestamp |-> timestamp, tables |-> tables,
   lastMigrationId |-> version]

\* The expected schemas validateSchema is called with.
ExpectedSpecs(name) ==
  CASE name = "users" -> {"id", "id, email", "++id, &email, *tags", "id, [name+email]"}
    [] name = "posts" -> {"++id", "id"}
    [] OTHER -> {""}

ExpectedMaps ==
  UNION { {f \in [names -> UNION {ExpectedSpecs(n) : n \in names}] :
             \A n \in names : f[n] \in ExpectedSpecs(n)}
          : names \in SUBSET {"users", "posts", "kv"} }

CreateSnapshot ==
  /\ tool = NoCall
  /\ \E ids \in IdSeqs : \E migrations \in ValidLists(ids) :
       LET opened == RunOnFresh(migrations)
       IN /\ opened.error = ""
          /\ tool' = [ op |-> "createSnapshot",
                       args |-> [db |-> opened.store, migrations |-> migrations],
                       left |-> [db |-> opened.store, migrations |-> migrations],
                       out |-> createSnapshot(opened.store, migrations, 1) ]
  /\ UNCHANGED <<store, now, run, coordVars>>

ValidateSchema ==
  /\ tool = NoCall
  /\ \E tables \in SnapshotTables, expected \in ExpectedMaps :
       LET current == Snapshot(1, 1, tables)
       IN tool' = [ op |-> "validateSchema",
                    args |-> [current |-> current, expected |-> expected],
                    left |-> [current |-> current, expected |-> expected],
                    out |-> validateSchema(current, expected) ]
  /\ UNCHANGED <<store, now, run, coordVars>>

CompareSnapshots ==
  /\ tool = NoCall
  /\ \E oldTables \in SnapshotTables, newTables \in SnapshotTables,
        sameTime \in BOOLEAN :
       LET oldSnapshot == Snapshot(1, 1, oldTables)
           newSnapshot == IF sameTime THEN Snapshot(1, 1, newTables)
                          ELSE Snapshot(2, 2, newTables)
       IN tool' = [ op |-> "compareSnapshots",
                    args |-> [oldSnapshot |-> oldSnapshot, newSnapshot |-> newSnapshot],
                    left |-> [oldSnapshot |-> oldSnapshot, newSnapshot |-> newSnapshot],
                    out |-> compareSnapshots(oldSnapshot, newSnapshot) ]
  /\ UNCHANGED <<store, now, run, coordVars>>

NextSnapshot == CreateSnapshot \/ ValidateSchema \/ CompareSnapshots

SpecSnapshot == Init /\ [][NextSnapshot]_vars

(***************************************************************************)
(* runMigrations with a squashed set                                       *)
(***************************************************************************)
\* A migration value made by squashMigrations as runMigrations sees it: id
\* and name are a number and a string, an up function succeeds when called.
AsInput(m) ==
  [ id |-> m.id, typeofId |-> "number",
    name |-> m.name, typeofName |-> "string",
    stores |-> m.stores,
    up |-> IF m.up = "none" THEN "none" ELSE "ok",
    validateAfter |-> IF m.validateAfter = "none" THEN "none" ELSE "true" ]

\* [baseMigration, ...remainingMigrations]
SquashedSet(squashed) ==
  <<AsInput(squashed.baseMigration)>> \o squashed.remainingMigrations

\* The application replaces its migrations with the squashed set and calls
\* runMigrations on the store its original set was applied to.
CallSquashed(r) ==
  /\ run[r].pc = "resolved"
  /\ run[r].prev = <<>>
  /\ \E options \in SquashOptions :
       LET squashed == squashMigrations(run[r].migrations.items, options)
       IN /\ ~squashed.threw
          /\ Enter(r, [isArray |-> TRUE, items |-> SquashedSet(squashed)], FALSE,
                   <<run[r]>>, Quiet)

NextSquashedRun ==
  \E r \in SeqRunners : \/ CallOnFresh(r) \/ CallSquashed(r)
                        \/ Plan(r) \/ UpgradeStep(r) \/ Opened(r)

SpecSquashedRun == Init /\ [][NextSquashedRun]_vars

(***************************************************************************)
(* Vocabulary of the properties                                            *)
(***************************************************************************)
InputIds(rn) == {rn.migrations.items[i].id : i \in DOMAIN rn.migrations.items}

Accepted(rn) == validateMigrations(rn.migrations) = "ok"

FailsUp(m) == m.up = "throw"
FailsValidate(m) == m.validateAfter \in {"false", "throw"}

AllSucceed(rn) ==
  \A i \in DOMAIN rn.migrations.items :
    ~FailsUp(rn.migrations.items[i]) /\ ~FailsValidate(rn.migrations.items[i])

\* The indices of the log entries of one kind about one id.
At(log, kind, id) == {i \in DOMAIN log : log[i].kind = kind /\ log[i].id = id}

Before(A, B) == \A a \in A, b \in B : a < b

UserTables(s) == [t \in DOMAIN s.tables \ {MIGRATIONS_TABLE} |-> s.tables[t]]

(***************************************************************************)
(* C1: a migration whose id has a record in the tracking table never has   *)
(* its up or validateAfter executed again and never gets a second record,  *)
(* whatever set a later run passes; and a run does not delete or modify a  *)
(* record, also when its set omits the record's id.                        *)
(***************************************************************************)
C1_RecordedNeverReapplied ==
  \A r \in Runners :
    LET rn == run[r] IN
    /\ \A i \in DOMAIN rn.log :
         rn.log[i].kind \in {"up", "validateAfter", "add"}
           => rn.log[i].id \notin DOMAIN rn.before.records
    /\ \A id \in InputIds(rn) : Cardinality(At(rn.log, "add", id)) <= 1
    /\ \A id \in DOMAIN rn.before.records :
         id \in DOMAIN store.records /\ store.records[id] = rn.before.records[id]

\* A run that omitted a recorded id and applied another migration.
C1_Witness ==
  \E r \in Runners :
    LET rn == run[r] IN
    /\ rn.pc = "resolved" /\ ~rn.dryRun
    /\ \E id \in DOMAIN rn.before.records : id \notin InputIds(rn)
    /\ \E i \in DOMAIN rn.log : rn.log[i].kind = "up"

(***************************************************************************)
(* C2: a non-dry run of a valid set whose callbacks all succeed, against a *)
(* store that does not exist, resolves with appliedMigrations = the ids    *)
(* ascending, skippedMigrations = [] and finalVersion = the size of the    *)
(* set; the tracking table then holds one record per id and the user       *)
(* tables are those of computeExpectedSchema.                              *)
(***************************************************************************)
C2_FreshStoreAppliesAll ==
  \A r \in Runners :
    LET rn == run[r] IN
    (Accepted(rn) /\ AllSucceed(rn) /\ ~rn.dryRun /\ rn.before.version = 0)
      => /\ rn.pc # "rejected"
         /\ rn.pc = "resolved" =>
              /\ rn.result.appliedMigrations = Ascending(InputIds(rn))
              /\ rn.result.skippedMigrations = <<>>
              /\ rn.result.finalVersion = Cardinality(InputIds(rn))
              /\ DOMAIN store.records = InputIds(rn)
              /\ \A id \in InputIds(rn) : Cardinality(At(rn.log, "add", id)) = 1
              /\ UserTables(store)
                   = UserTables([tables |-> computeExpectedSchema(rn.migrations.items)])

(***************************************************************************)
(* C3: idempotence.  A set whose callbacks succeed, run on a fresh store   *)
(* and then run again: the first run reports every id as applied, the      *)
(* second reports none applied and every id skipped, and executes no up    *)
(* and no validateAfter.                                                   *)
(***************************************************************************)
SecondRunOfSameSet(rn) ==
  /\ rn.prev # <<>>
  /\ rn.migrations = rn.prev[1].migrations
  /\ rn.prev[1].pc = "resolved" /\ ~rn.prev[1].dryRun
  /\ rn.prev[1].before.version = 0
  /\ AllSucceed(rn) /\ ~rn.dryRun

C3_Idempotent ==
  \A r \in Runners :
    LET rn == run[r] IN
    SecondRunOfSameSet(rn)
      => /\ rn.prev[1].result.appliedMigrations = Ascending(InputIds(rn))
         /\ rn.pc # "rejected"
         /\ \A i \in DOMAIN rn.log : rn.log[i].kind \notin {"up", "validateAfter", "add"}
         /\ rn.pc = "resolved" =>
              /\ rn.result.appliedMigrations = <<>>
              /\ rn.result.skippedMigrations = Ascending(InputIds(rn))

\* The second run of a set of two or more migrations, with callbacks, settled.
C3_Witness ==
  \E r \in Runners :
    LET rn == run[r] IN
    /\ SecondRunOfSameSet(rn) /\ rn.pc = "resolved"
    /\ Cardinality(InputIds(rn)) >= 2
    /\ \E i \in DOMAIN rn.prev[1].log : rn.prev[1].log[i].kind = "up"

(***************************************************************************)
(* C4: the upgrade step of a pending migration runs up, then               *)
(* validateAfter, then the insertion of its record; when up throws, or     *)
(* validateAfter returns false or throws, the rest of the step is not      *)
(* executed and nothing of the step persists: no record of the id, and     *)
(* the rows its up wrote are absent.                                       *)
(***************************************************************************)
C4_StepAtomic ==
  \A r \in Runners :
    LET rn == run[r] IN
    \A i \in DOMAIN rn.chain :
      LET m == rn.chain[i].migration
          ups == At(rn.log, "up", m.id)
          vals == At(rn.log, "validateAfter", m.id)
          adds == At(rn.log, "add", m.id)
      IN /\ Before(ups, vals) /\ Before(vals, adds) /\ Before(ups, adds)
         /\ adds # {} => /\ m.up # "none" => ups # {}
                         /\ m.validateAfter # "none" => vals # {}
                         /\ m.id \in DOMAIN store.records
         /\ (FailsUp(m) /\ ups # {}) \/ (FailsValidate(m) /\ vals # {})
              => /\ adds = {}
                 /\ FailsUp(m) => vals = {}
                 /\ m.id \notin DOMAIN store.records
                 /\ m.id \notin store.data
                 /\ rn.pc = "rejected"

\* A step whose up wrote rows and whose validateAfter then returned false,
\* after an earlier step of the same run had committed.
C4_Witness ==
  \E r \in Runners :
    LET rn == run[r] IN
    /\ rn.pc = "rejected"
    /\ \E i \in DOMAIN rn.chain :
         LET m == rn.chain[i].migration IN
         /\ m.up = "ok" /\ m.validateAfter = "false"
         /\ At(rn.log, "up", m.id) # {} /\ At(rn.log, "validateAfter", m.id) # {}
         /\ \E j \in 1..(i - 1) : At(rn.log, "add", rn.chain[j].migration.id) # {}

(***************************************************************************)
(* C5: when the upgrade step at position k fails, runMigrations rejects    *)
(* with that error; what the steps below k committed stays in the store,   *)
(* the failing step leaves nothing, no up or validateAfter of a position   *)
(* above k executes, and the failed step is not retried.                   *)
(***************************************************************************)
ErrorOf(m) ==
  IF FailsUp(m) THEN "up threw"
  ELSE IF m.validateAfter = "throw" THEN "validateAfter threw"
  ELSE IF m.validateAfter = "false" THEN "validation failed"
  ELSE "ConstraintError"

Failures(rn) == {i \in DOMAIN rn.log : rn.log[i].kind = "onError"}

C5_FailureStopsRun ==
  \A r \in Runners :
    LET rn == run[r] IN
    Failures(rn) # {}
      => LET f == rn.log[CHOOSE i \in Failures(rn) : TRUE].id
             k == CHOOSE i \in DOMAIN rn.chain : rn.chain[i].migration.id = f
         IN /\ Failures(rn) = {Len(rn.log)}
            /\ rn.pc = "rejected"
            /\ rn.error = ErrorOf(rn.chain[k].migration)
            /\ store.version = k - 1
            /\ \A j \in 1..(k - 1) :
                 LET m == rn.chain[j].migration IN
                 (rn.chain[j].isNewMigration /\ j > rn.before.version)
                   => /\ m.id \in DOMAIN store.records
                      /\ m.up # "none" => m.id \in store.data
            /\ f \notin DOMAIN store.records /\ f \notin store.data
            /\ Cardinality(At(rn.log, "up", f)) <= 1
            /\ Cardinality(At(rn.log, "validateAfter", f)) <= 1
            /\ \A j \in (k + 1)..Len(rn.chain) :
                 \A kind \in {"onProgress", "up", "validateAfter", "add"} :
                   At(rn.log, kind, rn.chain[j].migration.id) = {}

\* A run that failed at its second of three positions, the first committed.
C5_Witness ==
  \E r \in Runners :
    LET rn == run[r] IN
    /\ rn.pc = "rejected" /\ Failures(rn) # {}
    /\ Len(rn.chain) = 3 /\ store.version = 1 /\ rn.before.version = 0
    /\ rn.chain[1].migration.id \in store.data
    /\ rn.chain[3].migration.up # "none"

(***************************************************************************)
(* C6: resumable migrations.  After a run that failed at some position, a  *)
(* later run of the same set with all callbacks succeeding reports as      *)
(* skipped the ids applied before the failure, applies the remaining ids   *)
(* in ascending order, and ends with one record for every id of the set.   *)
(***************************************************************************)
RetryAfterFailure(rn) ==
  /\ rn.prev # <<>>
  /\ rn.prev[1].pc = "rejected" /\ Failures(rn.prev[1]) # {}
  /\ rn.migrations = Repaired(rn.prev[1].migrations)
  /\ ~rn.dryRun

C6_Resumable ==
  \A r \in Runners :
    LET rn == run[r] IN
    RetryAfterFailure(rn)
      => /\ rn.pc # "rejected"
         /\ rn.pc = "resolved" =>
              /\ rn.result.skippedMigrations
                   = Ascending(InputIds(rn) \cap DOMAIN rn.before.records)
              /\ rn.result.appliedMigrations
                   = Ascending(InputIds(rn) \ DOMAIN rn.before.records)
              /\ \A id \in InputIds(rn) \ DOMAIN rn.before.records :
                   Cardinality(At(rn.log, "add", id)) = 1
              /\ InputIds(rn) \subseteq DOMAIN store.records

(***************************************************************************)
(* C7: with dryRun set, runMigrations leaves the store untouched (a store  *)
(* that did not exist still does not exist), executes no up and no         *)
(* validateAfter, and resolves with db = null, appliedMigrations = [],     *)
(* skippedMigrations = the ids of the set already recorded and             *)
(* finalVersion = the number of migrations of the set.                     *)
(***************************************************************************)
C7_DryRunTouchesNothing ==
  \A r \in Runners :
    LET rn == run[r] IN
    (rn.dryRun /\ Accepted(rn) /\ rn.pc # "idle")
      => /\ store = rn.before
         /\ rn.pc # "rejected"
         /\ \A i \in DOMAIN rn.log : rn.log[i].kind \notin {"up", "validateAfter", "add"}
         /\ rn.pc = "resolved" =>
              /\ rn.result.db = NULL
              /\ rn.result.appliedMigrations = <<>>
              /\ rn.result.skippedMigrations
                   = Ascending(InputIds(rn) \cap DOMAIN rn.before.records)
              /\ rn.result.finalVersion = Cardinality(InputIds(rn))

(***************************************************************************)
(* C8: runMigrations rejects before any store interaction and before any   *)
(* callback, the store unchanged, exactly when migrations is no array, is  *)
(* empty, holds two migrations with the same id, or holds a migration      *)
(* whose id is not a non-zero number or whose name is not a non-empty      *)
(* string; every other set is accepted.                                    *)
(***************************************************************************)
ValidationErrors ==
  { "Migrations must be an array", "At least one migration is required",
    "Duplicate migration IDs detected", "Migration has invalid ID",
    "Migration has invalid name" }

Malformed(migrations) ==
  \/ ~migrations.isArray
  \/ migrations.items = <<>>
  \/ \E i, j \in DOMAIN migrations.items :
       /\ i # j
       /\ migrations.items[i].typeofId = migrations.items[j].typeofId
       /\ migrations.items[i].id = migrations.items[j].id
  \/ \E i \in DOMAIN migrations.items :
       LET m == migrations.items[i] IN
       \/ ~(m.typeofId = "number" /\ m.id # 0)
       \/ ~(m.typeofName = "string" /\ m.name # "")

Rank(id, ids) == Cardinality({j \in ids : j < id}) + 1

Progress(rn) == SelectSeq(rn.log, LAMBDA e : e.kind = "onProgress")

C10_ProgressPerPending ==
  \A r \in Runners :
    LET rn == run[r]
        P == Len(rn.pendingMigrations)
    IN /\ \A i \in DOMAIN rn.chain :
            LET id == rn.chain[i].migration.id IN
            /\ Cardinality(At(rn.log, "onProgress", id)) <= 1
            /\ At(rn.log, "up", id) # {} => At(rn.log, "onProgress", id) # {}
            /\ Before(At(rn.log, "onProgress", id), At(rn.log, "up", id))
       /\ (rn.pc = "resolved" /\ ~rn.dryRun)
            => Progress(rn) = [k \in 1..P |->
                                Ev("onProgress", rn.pendingMigrations[k].id, k, P)]

(***************************************************************************)
(* C11: in a non-dry run onError is invoked exactly once, with the failing *)
(* migration and its error and before runMigrations rejects, if and only   *)
(* if an upgrade step fails; onComplete is invoked exactly once if and     *)
(* only if every declared version opened without failure; the two never    *)
(* both fire in one run.                                                   *)
(***************************************************************************)
Completions(rn) == {i \in DOMAIN rn.log : rn.log[i].kind = "onComplete"}

Settled(rn) == rn.pc \in {"resolved", "rejected"}

\* db.open() stopped below the last declared version / reached it.
StepFailed(rn) == rn.chain # <<>> /\ store.version < Len(rn.chain)
AllOpened(rn) == rn.chain # <<>> /\ store.version = Len(rn.chain)

\* The error the upgrade step of m throws.
StepError(m, options) ==
  IF options.onProgress = "throws" THEN "onProgress threw" ELSE ErrorOf(m)

QuietOutcome(rn) ==
  LET built == BuildChain(rn.sortedMigrations, rn.appliedIds, 1,
                          [chain |-> <<>>, newlyApplied |-> <<>>, progress |-> <<>>])
      opened == OpenFrom(rn.before, built.chain, Len(rn.pendingMigrations), now, Quiet)
  IN [ store |-> opened.store,
       pc |-> IF opened.error = "" THEN "resolved" ELSE "rejected",
       error |-> opened.error,
       result |-> IF opened.error = ""
                    THEN OpenResult([rn EXCEPT !.newlyApplied = built.newlyApplied])
                    ELSE NoResult ]

C12_NotificationOnly ==
  \A r \in Runners :
    LET rn == run[r] IN
    (Settled(rn) /\ ~rn.dryRun /\ Accepted(rn))
      => /\ store = QuietOutcome(rn).store
         /\ rn.pc = QuietOutcome(rn).pc
         /\ rn.error = QuietOutcome(rn).error
         /\ rn.result = QuietOutcome(rn).result

(***************************************************************************)
(* C13: under zero message-delivery latency, whatever the interleaving of  *)
(* the acquireLock and releaseLock calls of two coordinators on the same   *)
(* database name (both racing acquireLock, or one starting acquireLock     *)
(* while the other holds the lock), at most one of them reports            *)
(* hasLock() = true at any instant.                                        *)
(***************************************************************************)
C13_MutualExclusion ==
  \A c, d \in Tabs :
    (c # d /\ coord[c].channel /\ coord[d].channel)
      => ~(hasLock(coord[c]) /\ hasLock(coord[d]))

(***************************************************************************)
(* C14: while another coordinator on the same database name holds the lock *)
(* and does not release it, runWithCoordination rejects with the 'Failed   *)
(* to acquire migration lock' error once lockTimeout has elapsed and never *)
(* invokes the work callback.                                              *)
(***************************************************************************)
JobSettled(co) == co.job \in {"resolved", "rejected"}

C14_HeldLockTimesOut ==
  \A c \in Tabs :
    LET co == coord[c] IN
    (co.job # "none" /\ co.hasChannel /\ co.holders # {})
      => /\ co.workCalls = 0
         /\ JobSettled(co) => /\ co.job = "rejected"
                              /\ co.jobError = LOCK_TIMEOUT_ERROR
                              /\ co.elapsed >= co.lockTimeout

(***************************************************************************)
(* C15: if waitForLock returns false, runWithCoordination rejects with the *)
(* lock-timeout error, which names the timeout, and the work callback is   *)
(* never invoked.                                                          *)
(***************************************************************************)
C15_TimeoutRejects ==
  \A c \in Tabs :
    LET co == coord[c] IN
    (co.job # "none" /\ co.waited = "false")
      => /\ co.job = "rejected"
         /\ co.jobError = LOCK_TIMEOUT_ERROR
         /\ co.named = co.lockTimeout
         /\ co.workCalls = 0
         /\ \A i \in DOMAIN co.sent : co.sent[i].type # "migration_started"

\* A call that gave up after two attempts, another tab having announced a
\* lock in each window.
C15_Witness ==
  \E c \in Tabs :
    /\ coord[c].job = "rejected" /\ coord[c].waited = "false"
    /\ coord[c].attempts = 2 /\ coord[c].lockTimeout = 7

(***************************************************************************)
(* C16: when the lock is obtained, runWithCoordination broadcasts          *)
(* lock_acquired, then migration_started, then invokes work exactly once,  *)
(* then broadcasts migration_completed and returns work's value if work    *)
(* resolved, or broadcasts migration_failed with the error's message and   *)
(* rethrows work's error if work rejected, and finally broadcasts          *)
(* lock_released; completed and failed are never both broadcast and work   *)
(* is never retried.                                                       *)
(***************************************************************************)
\* The messages a coordinator posted, its pings left out.
Notices(co) == SelectSeq(co.sent, LAMBDA m : m.type # "ping")

\* What the work callback rejects with.
WorkError(work) == IF work = "rejects" THEN "work failed" ELSE "null"

C16_JobProtocol ==
  \A c \in Tabs :
    LET co == coord[c]
        started == <<Msg("lock_acquired", c, ""), Msg("migration_started", c, "")>>
        released == <<Msg("lock_released", c, "")>>
    IN (co.job # "none" /\ co.hasChannel /\ co.waited = "true")
         => /\ co.workCalls = 1
            /\ co.job = "work" => Notices(co) = started
            /\ co.job = "resolved"
                 => /\ co.work = "resolves"
                    /\ Notices(co) = started \o <<Msg("migration_completed", c, "")>>
                                       \o released
            /\ co.job = "rejected"
                 => /\ co.work # "resolves"
                    /\ co.jobError = WorkError(co.work)
                    /\ Notices(co) = started
                                       \o <<Msg("migration_failed", c, WorkError(co.work))>>
                                       \o released

(***************************************************************************)
(* C17: in every outcome of runWithCoordination (work resolves, work       *)
(* rejects, the lock times out), when the call settles its coordinator no  *)
(* longer holds the lock, a held lock having been released with a          *)
(* lock_released broadcast, and its channel is closed, so that a           *)
(* coordinator created afterwards can acquire the lock.                    *)
(***************************************************************************)
Count(sent, type) == Cardinality({i \in DOMAIN sent : sent[i].type = type})

C17_SettledJobLetsGo ==
  \A c \in Tabs :
    LET co == coord[c] IN
    JobSettled(co)
      => /\ ~hasLock(co)
         /\ ~co.channel /\ ~co.listening
         /\ co.acquire = "idle" /\ co.wait = "idle"
         /\ Count(co.sent, "lock_acquired") <= 1
         /\ Count(co.sent, "lock_released") = Count(co.sent, "lock_acquired")
         /\ Count(co.sent, "lock_acquired") = 1
              => co.sent[Len(co.sent)].type = "lock_released"
         /\ \A d \in Tabs :
              (c \in coord[d].settledBefore /\ coord[d].hasChannel)
                => coord[d].acquired # "false"

\* A coordinator made after a call whose work rejected: its acquireLock
\* returned true.
C17_Witness ==
  \E c, d \in Tabs :
    /\ coord[c].job = "rejected" /\ coord[c].work = "rejects"
    /\ Count(coord[c].sent, "lock_released") = 1
    /\ c \in coord[d].settledBefore /\ coord[d].hasChannel
    /\ coord[d].acquired = "true" /\ hasLock(coord[d])

(***************************************************************************)
(* C18: each acquireLock call on a coordinator with a channel publishes    *)
(* exactly one ping and listens for one discovery window; it returns true, *)
(* sets the local lock and broadcasts lock_acquired if and only if no      *)
(* lock_acquired from a different identity was received during that        *)
(* window; otherwise it returns false without claiming the lock, without   *)
(* broadcasting lock_acquired and without retrying.                        *)
(***************************************************************************)
\* The steps in which an acquireLock of tab c begins and ends.
AcquireBegins(c) == coord[c].acquire = "idle" /\ coord'[c].acquire = "window"
AcquireEnds(c) == coord[c].acquire = "window" /\ coord'[c].acquire = "idle"

\* The step delivers a lock_acquired of another tab to the listening tab c.
Heard(c) ==
  /\ inbox[c] # <<>> /\ inbox'[c] = Tail(inbox[c])
  /\ Head(inbox[c]).type = "lock_acquired" /\ Head(inbox[c]).tabId # c
  /\ coord[c].listening

\* The step is a call of runWithCoordination, which makes the coordinator.
Makes(c) == coord'[c].job = "waitForLock" /\ coord[c].job # "waitForLock"

\* What tab c's coordinator had posted before the step.
SentBefore(c) == IF Makes(c) THEN <<>> ELSE coord[c].sent

ReturnsTrue(c) ==
  IF coord[c].caller = "waitForLock" THEN coord'[c].waited = "true"
  ELSE coord'[c].acquired = "true"

ReturnsFalse(c) ==
  IF coord[c].caller = "waitForLock" THEN coord'[c].wait = "backoff"
  ELSE coord'[c].acquired = "false"

AcquireStep(c) ==
  /\ AcquireBegins(c)
       => /\ coord'[c].sent = Append(SentBefore(c), Msg("ping", c, ""))
          /\ coord'[c].listening /\ coord'[c].windowLeft = DISCOVERY_WINDOW
          /\ coord'[c].lock = (coord[c].lock /\ ~Makes(c))
  /\ Count(coord'[c].sent, "ping") > Count(SentBefore(c), "ping") => AcquireBegins(c)
  /\ (AcquireEnds(c) /\ coord[c].channel)
       => /\ ~coord'[c].listening
          /\ Heard(c) \/ coord[c].windowLeft = 0
          /\ IF Heard(c)
               THEN /\ ReturnsFalse(c)
                    /\ coord'[c].lock = coord[c].lock
                    /\ coord'[c].sent = coord[c].sent
               ELSE /\ ReturnsTrue(c)
                    /\ coord'[c].lock
                    /\ Len(coord'[c].sent) > Len(coord[c].sent)
                    /\ coord'[c].sent[Len(coord[c].sent) + 1] = Msg("lock_acquired", c, "")

C18_AcquireDiscovers == [][\A c \in Tabs : AcquireStep(c)]_vars

\* An acquireLock that heard the lock_acquired of the other tab and returned
\* false: one ping posted, no lock, while the other tab holds its lock.
C18_Witness ==
  \E c, d \in Tabs :
    /\ coord[c].job = "none" /\ coord[c].channel /\ coord[c].acquired = "false"
    /\ coord[c].sent = <<Msg("ping", c, "")>> /\ ~hasLock(coord[c])
    /\ hasLock(coord[d])

(***************************************************************************)
(* C19: waitForLock(timeout) always terminates; it calls acquireLock       *)
(* repeatedly, waiting the fixed backoff after each failed attempt,        *)
(* returns true as soon as one attempt succeeds, returns false only once   *)
(* timeout has elapsed with no successful attempt, and never returns true  *)
(* without a successful acquireLock.                                       *)
(***************************************************************************)
\* The step in which a waitForLock of tab c returns.
WaitReturns(c) ==
  /\ coord'[c].waited # "none"
  /\ coord[c].wait # "idle" \/ coord[c].waited # coord'[c].waited

\* The step in which an attempt of a waitForLock of tab c begins / succeeds.
AttemptBegins(c) == coord'[c].attempts > 0 /\ coord'[c].attempts # coord[c].attempts
AttemptSucceeds(c) ==
  /\ coord[c].wait = "attempt" /\ AcquireEnds(c) /\ ~Heard(c)

WaitStep(c) ==
  /\ AttemptBegins(c)
       => \/ coord[c].wait = "idle" /\ coord'[c].attempts = 1
          \/ /\ coord[c].wait = "backoff" /\ coord[c].backoffLeft = 0
             /\ coord'[c].attempts = coord[c].attempts + 1
             /\ coord[c].elapsed < coord[c].maxWait
  /\ (coord[c].wait = "attempt" /\ AcquireEnds(c) /\ Heard(c))
       => coord'[c].wait = "backoff" /\ coord'[c].backoffLeft = BACKOFF
  /\ AttemptSucceeds(c) => WaitReturns(c) /\ coord'[c].waited = "true"
  /\ (WaitReturns(c) /\ coord'[c].waited = "true")
       => \/ AttemptSucceeds(c)
          \/ coord[c].wait # "attempt" /\ ~coord'[c].channel /\ AttemptBegins(c)
  /\ (WaitReturns(c) /\ coord'[c].waited = "false")
       => /\ coord'[c].elapsed >= coord'[c].maxWait
          /\ ~coord'[c].lock \/ coord[c].lock

C19_WaitTerminates ==
  /\ [][\A c \in Tabs : WaitStep(c)]_vars
  /\ \A c \in Tabs : (coord[c].wait # "idle") ~> (coord[c].wait = "idle")

\* A waitForLock whose first attempt heard another tab's lock_acquired and
\* whose second attempt, after the pause, took the lock.
C19_Witness ==
  \E c \in Tabs :
    /\ coord[c].job = "none" /\ coord[c].waited = "true"
    /\ coord[c].attempts = 2 /\ hasLock(coord[c])

(***************************************************************************)
(* C20: releaseLock broadcasts lock_released and clears the local lock     *)
(* exactly when this coordinator holds the lock; when it does not hold the *)
(* lock, releaseLock broadcasts nothing and changes nothing, so a second   *)
(* consecutive releaseLock is a no-op.                                     *)
(***************************************************************************)
\* A coordinator without the history the model keeps about it.
Program(co) == [co EXCEPT !.granted = FALSE, !.holders = {}, !.settledBefore = {}]

ReleaseStep(c) ==
  ReleaseLock(c)
    => IF hasLock(coord[c])
         THEN /\ ~hasLock(coord'[c])
              /\ coord'[c].sent =
                   IF coord[c].channel
                     THEN Append(coord[c].sent, Msg("lock_released", c, ""))
                     ELSE coord[c].sent
              /\ \A d \in Tabs \ {c} :
                   inbox'[d] = IF coord[c].channel /\ coord[d].channel
                                 THEN Append(inbox[d], Msg("lock_released", c, ""))
                                 ELSE inbox[d]
         ELSE /\ \A d \in Tabs : Program(coord'[d]) = Program(coord[d])
              /\ UNCHANGED inbox

C20_ReleaseOnlyWhenHeld == [][\A c \in Tabs : ReleaseStep(c)]_vars

\* A coordinator after acquireLock, releaseLock and a second releaseLock:
\* one lock_released was posted.
C20_Witness ==
  \E c \in Tabs :
    /\ calls = 4 /\ \A d \in Tabs \ {c} : ~coord[d].made
    /\ coord[c].channel /\ ~hasLock(coord[c])
    /\ coord[c].acquire = "idle" /\ coord[c].waited = "none"
    /\ coord[c].sent = <<Msg("ping", c, ""), Msg("lock_acquired", c, ""),
                         Msg("lock_released", c, "")>>

(***************************************************************************)
(* C21: for every coordinator, hasLock() is true whenever acquireLock has  *)
(* returned true and neither releaseLock nor destroy has been called       *)
(* since, and false otherwise.                                             *)
(***************************************************************************)
C21_HasLockLifecycle ==
  \A c \in Tabs :
    coord[c].made => (hasLock(coord[c]) <=> coord[c].granted)

\* The half of C21 about release and teardown, and C21 for the coordinators
\* that have their channel.
C21_FalseAfterRelease ==
  \A c \in Tabs : coord[c].made /\ ~coord[c].granted => ~hasLock(coord[c])

C21_WithChannel ==
  \A c \in Tabs :
    coord[c].made /\ coord[c].channel => (hasLock(coord[c]) <=> coord[c].granted)

(***************************************************************************)
(* C22: computeExpectedSchema is invariant to input ordering: for every    *)
(* migration list with unique ids, every permutation of the list yields    *)
(* the same table-to-specification map.                                    *)
(***************************************************************************)
Rearrangements(s) ==
  { [i \in DOMAIN s |-> s[p[i]]] :
      p \in {q \in [DOMAIN s -> DOMAIN s] : \A i, j \in DOMAIN s : i # j => q[i] # q[j]} }

C22_OrderInvariant ==
  tool.op = "computeExpectedSchema" =>
    \A permuted \in Rearrangements(tool.args.migrations) :
      computeExpectedSchema(permuted) = tool.out

\* A list that is not in id order and whose fold in input order differs.
C22_Witness ==
  /\ tool.op = "computeExpectedSchema"
  /\ tool.args.migrations # SortById(tool.args.migrations)
  /\ ExpectedFold(tool.args.migrations, 1, NoStores) # tool.out
  /\ DOMAIN tool.out # {}

(***************************************************************************)
(* C23: computeExpectedSchema(M) maps each table to the specification      *)
(* given by the highest-id migration of M that mentions it, omits the      *)
(* table when that entry is null, has a table deleted by one migration and *)
(* declared again by a later one with the later specification, and has no  *)
(* table that M never mentions.                                            *)
(***************************************************************************)
\* The indices of the migrations of M that mention table t, and the one of
\* them with the highest id.
Mentions(M, t) == {i \in DOMAIN M : t \in DOMAIN M[i].stores}
Latest(M, t) == CHOOSE i \in Mentions(M, t) : \A j \in Mentions(M, t) : M[j].id <= M[i].id

TablesOf(M) == UNION {DOMAIN M[i].stores : i \in DOMAIN M}

C23_LatestEntryWins ==
  tool.op = "computeExpectedSchema" =>
    LET M == tool.args.migrations
    IN /\ DOMAIN tool.out \subseteq TablesOf(M)
       /\ \A t \in TablesOf(M) :
            LET entry == M[Latest(M, t)].stores[t]
            IN IF entry = NULL THEN t \notin DOMAIN tool.out
               ELSE t \in DOMAIN tool.out /\ tool.out[t] = entry

\* users is declared, deleted by a later migration and declared again by a
\* still later one, and posts ends deleted.
C23_Witness ==
  /\ tool.op = "computeExpectedSchema"
  /\ LET M == tool.args.migrations
     IN /\ \E i, j, k \in DOMAIN M :
             /\ M[i].id < M[j].id /\ M[j].id < M[k].id
             /\ "users" \in DOMAIN M[i].stores /\ M[i].stores["users"] # NULL
             /\ "users" \in DOMAIN M[j].stores /\ M[j].stores["users"] = NULL
             /\ "users" \in DOMAIN M[k].stores /\ M[k].stores["users"] # NULL
             /\ M[k].stores["users"] # M[i].stores["users"]
        /\ "users" \in DOMAIN tool.out

(***************************************************************************)
(* C24: squash equivalence: for every list with unique positive ids and    *)
(* every cutoffId that selects at least one migration,                     *)
(* computeExpectedSchema of the base migration followed by the remaining   *)
(* migrations equals computeExpectedSchema of the list.                    *)
(***************************************************************************)
IdsOf(M) == {M[i].id : i \in DOMAIN M}

C24_SquashEquivalence ==
  tool.op = "squashMigrations" /\ ~tool.out.threw =>
    computeExpectedSchema(<<tool.out.baseMigration>> \o tool.out.remainingMigrations)
      = computeExpectedSchema(tool.args.migrations)

\* The squashed half declares and deletes a table, the remaining half
\* declares it again, and the list is not in id order.
C24_Witness ==
  /\ tool.op = "squashMigrations" /\ ~tool.out.threw
  /\ LET M == tool.args.migrations
         cutoffId == tool.args.options.cutoffId
     IN /\ M # SortById(M)
        /\ \E i, j, k \in DOMAIN M :
             /\ M[i].id < M[j].id /\ M[j].id <= cutoffId /\ cutoffId < M[k].id
             /\ "users" \in DOMAIN M[i].stores /\ M[i].stores["users"] # NULL
             /\ "users" \in DOMAIN M[j].stores /\ M[j].stores["users"] = NULL
             /\ "users" \in DOMAIN M[k].stores /\ M[k].stores["users"] # NULL
  /\ "users" \notin DOMAIN tool.out.baseMigration.stores

(***************************************************************************)
(* C25: squashMigrations(M, {cutoffId}) returns squashedIds = the ids of M *)
(* that are <= cutoffId in ascending order, remainingMigrations = the      *)
(* migrations of M with id > cutoffId in ascending order and unchanged,    *)
(* and a baseMigration with id 1 and name baseName (default                *)
(* 'base_migration'); when no migration of M has id <= cutoffId it throws  *)
(* the 'No migrations to squash' error and returns nothing.                *)
(***************************************************************************)
C25_SquashResult ==
  tool.op = "squashMigrations" =>
    LET M == tool.args.migrations
        options == tool.args.options
        below == {id \in IdsOf(M) : id <= options.cutoffId}
        above == {id \in IdsOf(M) : id > options.cutoffId}
        out == tool.out
    IN IF below = {}
         THEN out = [threw |-> TRUE, error |-> NO_MIGRATIONS_TO_SQUASH]
         ELSE /\ ~out.threw
              /\ out.squashedIds = Ascending(below)
              /\ Len(out.remainingMigrations) = Cardinality(above)
              /\ \A i \in DOMAIN out.remainingMigrations :
                   /\ \E k \in DOMAIN M : out.remainingMigrations[i] = M[k]
                   /\ out.remainingMigrations[i].id = Ascending(above)[i]
              /\ out.baseMigration.id = 1
              /\ out.baseMigration.name =
                   (IF options.baseName = NULL THEN "base_migration" ELSE options.baseName)

\* A list out of id order with ids on both sides of the cutoff.
C25_Witness ==
  /\ tool.op = "squashMigrations" /\ ~tool.out.threw
  /\ tool.args.migrations # SortById(tool.args.migrations)
  /\ Len(tool.out.squashedIds) >= 2
  /\ Len(tool.out.remainingMigrations) >= 1
  /\ tool.args.options.baseName # NULL

\* The cutoff is below every id.
C25_ThrowsWitness ==
  /\ tool.op = "squashMigrations" /\ tool.out.threw
  /\ tool.args.options.cutoffId > 0

(***************************************************************************)
(* C26: renumberMigrations(M, startId) returns the migrations of M in      *)
(* ascending original-id order with ids startId, startId+1, ...,           *)
(* startId+N-1 (startId defaults to 1), every other field unchanged, and   *)
(* does not modify the input list.                                         *)
(***************************************************************************)
C26_Renumbered ==
  tool.op = "renumberMigrations" =>
    LET M == tool.args.migrations
        startId == IF tool.args.startId = <<>> THEN 1 ELSE tool.args.startId[1]
        original == Ascending(IdsOf(M))
    IN /\ Len(tool.out) = Len(M)
       /\ \A i \in DOMAIN tool.out :
            \E k \in DOMAIN M :
              /\ M[k].id = original[i]
              /\ tool.out[i] = [M[k] EXCEPT !.id = startId + i - 1]
       /\ tool.left.migrations = M

\* A list out of id order with a gap in its ids, renumbered from 5.
C26_Witness ==
  /\ tool.op = "renumberMigrations"
  /\ tool.args.migrations # SortById(tool.args.migrations)
  /\ MapId(SortById(tool.args.migrations)) = <<1, 3>>
  /\ tool.args.startId = <<5>>
  /\ MapId(tool.out) = <<5, 6>>

(***************************************************************************)
(* C27: validateSquash(M, cutoffId) always returns valid = true; its       *)
(* warnings hold one warning about up functions iff some migration with    *)
(* id <= cutoffId has up, one about down iff some has down, one about      *)
(* validateAfter iff some has validateAfter; migrations above the cutoff   *)
(* cause no warning, and a prefix without callbacks yields none.           *)
(***************************************************************************)
Times(warnings, kind) == Cardinality({i \in DOMAIN warnings : warnings[i] = kind})

C27_SquashWarnings ==
  tool.op = "validateSquash" =>
    LET M == tool.args.migrations
        prefix == {i \in DOMAIN M : M[i].id <= tool.args.cutoffId}
        warnings == tool.out.warnings
    IN /\ tool.out.valid
       /\ Times(warnings, "up") = (IF \E i \in prefix : M[i].up # "none" THEN 1 ELSE 0)
       /\ Times(warnings, "down") = (IF \E i \in prefix : M[i].down # "none" THEN 1 ELSE 0)
       /\ Times(warnings, "validateAfter")
            = (IF \E i \in prefix : M[i].validateAfter # "none" THEN 1 ELSE 0)
       /\ Len(warnings) = Times(warnings, "up") + Times(warnings, "down")
                            + Times(warnings, "validateAfter")

\* The prefix has up functions only, a migration above the cutoff has all
\* three callbacks, and the only warning is the one about up.
C27_Witness ==
  /\ tool.op = "validateSquash"
  /\ LET M == tool.args.migrations
     IN /\ \E i \in DOMAIN M : M[i].id <= tool.args.cutoffId /\ M[i].up # "none"
        /\ \E i \in DOMAIN M :
             /\ M[i].id > tool.args.cutoffId
             /\ M[i].up # "none" /\ M[i].down # "none" /\ M[i].validateAfter # "none"
  /\ tool.out.warnings = <<"up">>

(***************************************************************************)
(* C28: validateSchema(actual, expected) emits a 'Missing table' error     *)
(* exactly for the tables of expected that are absent from actual, an      *)
(* 'Unexpected table' warning exactly for the tables of actual without the *)
(* internal prefix that are absent from expected, a missing-index error    *)
(* for each expected field that is not among the actual table's primary    *)
(* key and indexes, and valid = true iff it emitted no error.              *)
(***************************************************************************)
\* The findings of one kind, and how often a finding occurs in a list.
OfKind(findings, kind) == SelectSeq(findings, LAMBDA f : f.kind = kind)
Occurs(findings, f) == Cardinality({i \in DOMAIN findings : findings[i] = f})

\* The fields a table of expected asks for that the actual table lacks.
LackingFields(current, expected, name) ==
  LET fields == parseSchemaString(expected[name])
      table == current.tables[name]
  IN {i \in DOMAIN fields :
        fields[i] # table.primaryKey /\ ~Contains(table.indexes, fields[i])}

ValidateSchemaClaim(current, expected, out) ==
  LET missing == DOMAIN expected \ DOMAIN current.tables
      unexpected == {name \in DOMAIN current.tables :
                       ~StartsWithUnderscore(name) /\ name \notin DOMAIN expected}
      both == DOMAIN expected \cap DOMAIN current.tables
  IN /\ \A name \in missing : Occurs(out.errors, Finding("Missing table", name, "")) = 1
     /\ Len(OfKind(out.errors, "Missing table")) = Cardinality(missing)
     /\ \A name \in unexpected :
          Occurs(out.warnings, Finding("Unexpected table", name, "")) = 1
     /\ Len(OfKind(out.warnings, "Unexpected table")) = Cardinality(unexpected)
     /\ \A name \in both :
          LET fields == parseSchemaString(expected[name])
          IN /\ \A i \in LackingFields(current, expected, name) :
                  Contains(out.errors, Finding("missing index", name, fields[i]))
             /\ Len(SelectSeq(OfKind(out.errors, "missing index"),
                              LAMBDA f : f.table = name))
                  = Cardinality(LackingFields(current, expected, name))
     /\ Len(out.errors) = Len(OfKind(out.errors, "Missing table"))
                            + Len(OfKind(out.errors, "missing index"))
     /\ out.valid <=> (Len(out.errors) = 0)

C28_ValidateSchema ==
  tool.op = "validateSchema" =>
    ValidateSchemaClaim(tool.args.current, tool.args.expected, tool.out)

\* C28 for the expected schemas without an empty specification.
C28_NonEmptySpecifications ==
  tool.op = "validateSchema"
  /\ (\A name \in DOMAIN tool.args.expected : tool.args.expected[name] # "") =>
    ValidateSchemaClaim(tool.args.current, tool.args.expected, tool.out)

(***************************************************************************)
(* C29: snapshot round trip: for every valid migration list S applied by   *)
(* runMigrations to a fresh store, validateSchema(createSnapshot(db, S),   *)
(* computeExpectedSchema(S)) returns valid = true with no errors, for      *)
(* plain fields, modifier-prefixed fields and compound indexes.            *)
(***************************************************************************)
RoundTrip(snapshot, migrations) ==
  validateSchema(snapshot, computeExpectedSchema(migrations))

C29_SnapshotRoundTrip ==
  tool.op = "createSnapshot" =>
    LET result == RoundTrip(tool.out, tool.args.migrations)
    IN result.valid /\ result.errors = <<>>

\* C29 for the lists whose final schema has no compound index.
HasCompound(schema) == \E i \in DOMAIN Split(schema) : Split(schema)[i].compound

C29_WithoutCompound ==
  tool.op = "createSnapshot"
  /\ (LET expected == computeExpectedSchema(tool.args.migrations)
      IN \A name \in DOMAIN expected : ~HasCompound(expected[name])) =>
    LET result == RoundTrip(tool.out, tool.args.migrations)
    IN result.valid /\ result.errors = <<>>

(***************************************************************************)
(* C30: compareSnapshots(old, new) returns added = the tables of new not   *)
(* in old, removed = the tables of old not in new, modified = the tables   *)
(* in both whose TableSchema differs; the three lists are pairwise         *)
(* disjoint, a snapshot compared with itself yields three empty lists,     *)
(* and added of (old, new) equals removed of (new, old).                   *)
(***************************************************************************)
Elements(list) == {list[i] : i \in DOMAIN list}

\* The two TableSchema values differ in a field.
Differs(a, b) ==
  \/ a.name # b.name \/ a.primaryKey # b.primaryKey
  \/ a.indexes # b.indexes \/ a.autoIncrement # b.autoIncrement

CompareSnapshotsClaim(old, new, out) ==
  /\ Elements(out.added) = DOMAIN new.tables \ DOMAIN old.tables
  /\ Len(out.added) = Cardinality(Elements(out.added))
  /\ Elements(out.removed) = DOMAIN old.tables \ DOMAIN new.tables
  /\ Len(out.removed) = Cardinality(Elements(out.removed))
  /\ Elements(out.modified) =
       {name \in DOMAIN old.tables \cap DOMAIN new.tables :
          Differs(old.tables[name], new.tables[name])}
  /\ Len(out.modified) = Cardinality(Elements(out.modified))
  /\ Elements(out.added) \cap Elements(out.removed) = {}
  /\ Elements(out.added) \cap Elements(out.modified) = {}
  /\ Elements(out.removed) \cap Elements(out.modified) = {}
  /\ old = new => out.added = <<>> /\ out.removed = <<>> /\ out.modified = <<>>
  /\ out.added = compareSnapshots(new, old).removed

C30_CompareSnapshots ==
  tool.op = "compareSnapshots" =>
    CompareSnapshotsClaim(tool.args.oldSnapshot, tool.args.newSnapshot, tool.out)

\* C30 for snapshots whose tables have their properties in one order.
C30_SameKeyOrder ==
  tool.op = "compareSnapshots"
  /\ (\A name \in DOMAIN tool.args.oldSnapshot.tables :
        tool.args.oldSnapshot.tables[name].keys = AS_CREATED)
  /\ (\A name \in DOMAIN tool.args.newSnapshot.tables :
        tool.args.newSnapshot.tables[name].keys = AS_CREATED) =>
    CompareSnapshotsClaim(tool.args.oldSnapshot, tool.args.newSnapshot, tool.out)

(***************************************************************************)
(* C31: in a non-dry run the pending migrations are applied strictly one   *)
(* at a time in ascending id order: the up of a pending migration starts   *)
(* only after the tracking record of every pending migration with a        *)
(* smaller id has been inserted, no two upgrade steps overlap, and         *)
(* appliedMigrations lists the ids in that application order.              *)
(***************************************************************************)
PendingIds(rn) == {rn.pendingMigrations[i].id : i \in DOMAIN rn.pendingMigrations}

\* The insertions of tracking records, in the order they were made.
Adds(rn) == SelectSeq(rn.log, LAMBDA e : e.kind = "add")

StepKinds == {"onProgress", "up", "validateAfter", "add", "onError"}

\* No entry of another migration lies between two entries of one upgrade step.
NoOverlap(log) ==
  \A i, j, k \in DOMAIN log :
    (i < j /\ j < k /\ log[i].kind \in StepKinds /\ log[k].kind \in StepKinds
       /\ log[i].id = log[k].id)
      => log[j].id = log[i].id

C31_OneAtATime ==
  \A r \in Runners :
    LET rn == run[r] IN
    (~rn.dryRun /\ rn.pc \in {"opening", "resolved", "rejected"})
      => /\ \A id \in PendingIds(rn), smaller \in PendingIds(rn) :
              (smaller < id /\ At(rn.log, "up", id) # {})
                => /\ At(rn.log, "add", smaller) # {}
                   /\ Before(At(rn.log, "add", smaller), At(rn.log, "up", id))
         /\ NoOverlap(rn.log)
         /\ rn.pc = "resolved" => rn.result.appliedMigrations = MapId(Adds(rn))


(***************************************************************************)
(* C32: for every position v in 1..N the schema declared for store version *)
(* v is the cumulative fold of the stores maps of the migrations at        *)
(* positions <= v (last non-null entry per table, a null entry removing    *)
(* the table) plus the tracking table with its fixed schema; the tracking  *)
(* table is declared at every version, also when a migration has no stores *)
(* map or names the tracking table in it.                                  *)
(***************************************************************************)
\* The user tables after the migrations of M: for each table the entry of
\* the last migration that mentions it, unless that entry is null.
Cumulative(M) ==
  LET live == {t \in TablesOf(M) \ {MIGRATIONS_TABLE} :
                 M[Latest(M, t)].stores[t] # NULL}
  IN [t \in live |-> M[Latest(M, t)].stores[t]]

C32_CumulativeSchema ==
  \A r \in Runners :
    LET rn == run[r]
        N == Len(rn.sortedMigrations)
    IN (~rn.dryRun /\ rn.pc \in {"opening", "resolved"})
         => /\ Len(rn.chain) = N
            /\ \A v \in 1..N :
                 /\ SchemaAt(rn.chain, v)
                      = Extend(Cumulative(SubSeq(rn.sortedMigrations, 1, v)),
                               [t \in {MIGRATIONS_TABLE} |-> TRACKING_SCHEMA])
                 /\ MIGRATIONS_TABLE \in DOMAIN rn.chain[v].stores
                 /\ rn.chain[v].stores[MIGRATIONS_TABLE] = TRACKING_SCHEMA

\* A chain over a migration without a stores map, one that deletes the
\* tracking table and a user table's deletion at the last position.
C32_Witness ==
  \E r \in Runners :
    LET rn == run[r] IN
    /\ rn.pc = "resolved" /\ ~rn.dryRun
    /\ rn.migrations.items = NamesTracking
    /\ rn.sortedMigrations[1].stores = NoStores
    /\ rn.sortedMigrations[2].stores[MIGRATIONS_TABLE] = NULL
    /\ "users" \in DOMAIN SchemaAt(rn.chain, 2)
    /\ DOMAIN SchemaAt(rn.chain, 3) = {MIGRATIONS_TABLE}
    /\ store.tables = SchemaAt(rn.chain, 3)


(***************************************************************************)
(* C33: append-only upgrade.  If a set S has been fully applied to a store *)
(* and S' is S plus migrations whose ids are all greater than the largest  *)
(* id of S, then runMigrations with S' applies exactly the new migrations  *)
(* in ascending order, reports skippedMigrations = the ids of S, executes  *)
(* no callback of a migration of S, and ends at finalVersion = |S'| with   *)
(* exactly one tracking record per id of S'.                               *)
(***************************************************************************)
\* The store the call found has the first k migrations of the sorted set
\* fully applied: it is at version k and holds the records of exactly their
\* ids; the other migrations of the set have greater ids.
AppendsTo(rn, k) ==
  /\ Accepted(rn) /\ ~rn.dryRun
  /\ k >= 1 /\ k < Len(rn.migrations.items)
  /\ rn.before.version = k
  /\ DOMAIN rn.before.records
       = {SortById(rn.migrations.items)[i].id : i \in 1..k}

CallbackKinds == {"up", "validateAfter"}

C33_AppendOnly ==
  \A r \in Runners :
    LET rn == run[r]
        N == Len(rn.migrations.items)
    IN \A k \in 1..MaxId :
         (AppendsTo(rn, k) /\ AllSucceed(rn))
           => LET S == DOMAIN rn.before.records
                  new == [i \in 1..(N - k) |-> rn.sortedMigrations[k + i].id]
              IN /\ rn.pc # "rejected"
                 /\ \A i \in DOMAIN rn.log :
                      rn.log[i].kind \in CallbackKinds => rn.log[i].id \notin S
                 /\ rn.pc = "resolved"
                      => /\ rn.result.appliedMigrations = new
                         /\ MapId(Adds(rn)) = new
                         /\ rn.result.skippedMigrations = Ascending(S)
                         /\ rn.result.finalVersion = N
                         /\ store.version = N
                         /\ DOMAIN store.records = InputIds(rn)

\* Two migrations with callbacks appended to a store that has one applied.
C33_Witness ==
  \E r \in Runners :
    LET rn == run[r] IN
    /\ rn.pc = "resolved"
    /\ AppendsTo(rn, 1) /\ AllSucceed(rn)
    /\ InputIds(rn) = {1, 2, 3}
    /\ rn.result.appliedMigrations = <<2, 3>>
    /\ At(rn.log, "up", 3) # {} /\ At(rn.log, "up", 1) = {}
    /\ rn.before.data = {1}


(***************************************************************************)
(* C34: computeExpectedSchema is pure: it accesses no store and leaves its *)
(* argument unchanged; after the call the caller's migration list holds    *)
(* the same migrations in the same order as before the call.               *)
(***************************************************************************)
ComputeExpectedSchemaReturns ==
  tool = NoCall /\ tool'.op = "computeExpectedSchema"

C34_Pure ==
  [][ComputeExpectedSchemaReturns
       => /\ store' = store
          /\ tool'.left.migrations = tool'.args.migrations]_vars


(***************************************************************************)
(* C35: the baseMigration returned by squashMigrations has an up function  *)
(* only when preserveUpFunctions is explicitly set and at least one        *)
(* squashed migration has up; that combined up runs the squashed           *)
(* migrations' up functions one after another in ascending id order, each  *)
(* completed before the next starts and stopping at the first that throws; *)
(* baseMigration never carries validateAfter or down.                      *)
(***************************************************************************)
\* The ids of the squashed migrations that have an up function, ascending.
SquashedUps(migrations, cutoffId) ==
  Ascending({migrations[i].id : i \in {j \in DOMAIN migrations :
               migrations[j].id <= cutoffId /\ migrations[j].up # "none"}})

\* The number of up functions the combined up gets to call: up to the first
\* that throws.
Reached(ups, throws) ==
  IF \E i \in DOMAIN ups : ups[i] \in throws
    THEN CHOOSE i \in DOMAIN ups :
           ups[i] \in throws /\ \A j \in 1..(i - 1) : ups[j] \notin throws
    ELSE Len(ups)

C35_CombinedUp ==
  /\ (tool.op = "squashMigrations" /\ ~tool.out.threw)
       => LET base == tool.out.baseMigration
              ups == SquashedUps(tool.args.migrations, tool.args.options.cutoffId)
          IN /\ base.up # "none"
                  <=> (tool.args.options.preserveUpFunctions /\ ups # <<>>)
             /\ base.down = "none" /\ base.validateAfter = "none"
  /\ tool.op = "baseMigration.up"
       => LET ups == SquashedUps(tool.args.migrations, tool.args.options.cutoffId)
              n == Reached(ups, tool.args.throws)
              trace == tool.out.trace
          IN /\ Len(trace) = 2 * n
             /\ \A i \in 1..n :
                  /\ trace[2 * i - 1] = UpEv("called", ups[i])
                  /\ trace[2 * i]
                       = UpEv(IF ups[i] \in tool.args.throws THEN "threw"
                              ELSE "returned", ups[i])
             /\ tool.out.settled = "rejected"
                  <=> \E i \in DOMAIN ups : ups[i] \in tool.args.throws

\* A combined up over the up functions of 1 and 3, given out of order, in
\* which the first throws; and a base migration without up although the
\* squashed migrations have one.
C35_Witness ==
  /\ tool.op = "baseMigration.up"
  /\ MapId(tool.args.migrations) = <<3, 2, 1>>
  /\ tool.args.throws = {1}
  /\ tool.out.trace = <<UpEv("called", 1), UpEv("threw", 1)>>

C35_NotPreserved ==
  /\ tool.op = "squashMigrations" /\ ~tool.out.threw
  /\ ~tool.args.options.preserveUpFunctions
  /\ SquashedUps(tool.args.migrations, tool.args.options.cutoffId) # <<>>
  /\ tool.out.baseMigration.up = "none"


(***************************************************************************)
(* C36: after every successful non-dry run, appliedMigrations is exactly   *)
(* the set of ids whose tracking record was inserted during that run       *)
(* (every reported id has a record, every inserted id is reported), and    *)
(* skippedMigrations is exactly the ids of the set that had a record       *)
(* before the run; the two lists are disjoint and together contain every   *)
(* id of the set.                                                          *)
(***************************************************************************)
C36_ReportMatchesRecords ==
  \A r \in Runners :
    LET rn == run[r]
        applied == Elements(rn.result.appliedMigrations)
        skipped == Elements(rn.result.skippedMigrations)
    IN (rn.pc = "resolved" /\ ~rn.dryRun)
         => /\ applied = Elements(MapId(Adds(rn)))
            /\ applied \subseteq DOMAIN store.records
            /\ skipped = InputIds(rn) \cap DOMAIN rn.before.records
            /\ applied \cap skipped = {}
            /\ applied \cup skipped = InputIds(rn)


(***************************************************************************)
(* C37: after every successful non-dry run, every id of the passed set has *)
(* a record in the tracking table and its up has run exactly once in the   *)
(* store's history, also when a pending migration's id is smaller than an  *)
(* already-applied id, so that its position in the version chain is not    *)
(* above the store's current version.                                      *)
(***************************************************************************)
HasUp(m) == m.up # "none"

C37_EveryIdApplied ==
  \A r \in Runners :
    LET rn == run[r] IN
    (rn.pc = "resolved" /\ ~rn.dryRun)
      => \A i \in DOMAIN rn.migrations.items :
           LET m == rn.migrations.items[i] IN
           /\ m.id \in DOMAIN store.records
           /\ HasUp(m) =>
                /\ m.id \in store.data
                /\ Cardinality(At(rn.log, "up", m.id))
                     = IF m.id \in DOMAIN rn.before.records THEN 0 ELSE 1


(***************************************************************************)
(* C38: on every run of runWithCoordination, a migration_failed message is *)
(* broadcast only if migration_started was broadcast earlier by the same   *)
(* coordinator, that is, only when the work callback was invoked and       *)
(* rejected; a lock timeout broadcasts neither.                            *)
(***************************************************************************)
Sent(co, type) == {i \in DOMAIN co.sent : co.sent[i].type = type}

C38_FailedOnlyAfterStarted ==
  \A c \in Tabs :
    LET co == coord[c] IN
    /\ \A i \in Sent(co, "migration_failed") :
         /\ \E j \in Sent(co, "migration_started") : j < i
         /\ co.workCalls = 1 /\ co.work # "resolves"
    /\ (co.job = "rejected" /\ co.waited = "false")
         => Sent(co, "migration_failed") = {} /\ Sent(co, "migration_started") = {}


(***************************************************************************)
(* C39: when two non-dry runMigrations runs with the same set interleave   *)
(* on the same fresh store without coordination, each migration's up       *)
(* executes exactly once in total, each id gets exactly one tracking       *)
(* record, and each id is reported in appliedMigrations by at most one of  *)
(* the two runs.                                                           *)
(***************************************************************************)
\* Both calls were made before the store had all versions of the set, the
\* earlier one on the store that did not exist, and both have resolved.
Interleaved(a, b) ==
  /\ a.pc = "resolved" /\ b.pc = "resolved"
  /\ ~a.dryRun /\ ~b.dryRun
  /\ a.migrations = b.migrations
  /\ a.before = NoStore
  /\ b.before.version < Len(b.sortedMigrations)

C39_ConcurrentRuns ==
  \A p, q \in Runners :
    (p # q /\ Interleaved(run[p], run[q]))
      => \A i \in DOMAIN run[p].migrations.items :
           LET m == run[p].migrations.items[i] IN
           /\ HasUp(m) => Cardinality(At(run[p].log, "up", m.id))
                            + Cardinality(At(run[q].log, "up", m.id)) = 1
           /\ Cardinality(At(run[p].log, "add", m.id))
                + Cardinality(At(run[q].log, "add", m.id)) = 1
           /\ m.id \in DOMAIN store.records
           /\ ~(/\ Contains(run[p].result.appliedMigrations, m.id)
                /\ Contains(run[q].result.appliedMigrations, m.id))

\* Without the last part (the reports), for the record of what holds.
C39_AppliedOnce ==
  \A p, q \in Runners :
    (p # q /\ Interleaved(run[p], run[q]))
      => \A i \in DOMAIN run[p].migrations.items :
           LET m == run[p].migrations.items[i] IN
           /\ HasUp(m) => Cardinality(At(run[p].log, "up", m.id))
                            + Cardinality(At(run[q].log, "up", m.id)) = 1
           /\ Cardinality(At(run[p].log, "add", m.id))
                + Cardinality(At(run[q].log, "add", m.id)) = 1
           /\ m.id \in DOMAIN store.records


(***************************************************************************)
(* C40: running runMigrations with the squashed set [baseMigration,        *)
(* ...remainingMigrations] against a store to which the original           *)
(* unsquashed set was fully applied succeeds, executes no up function,     *)
(* reports appliedMigrations = [], and leaves the tracking records and     *)
(* user tables unchanged.                                                  *)
(***************************************************************************)
\* The call passes a squashed form of the set of the caller's previous call,
\* which applied that set in full to a store that did not exist.
RunsSquashed(rn) ==
  /\ rn.prev # <<>>
  /\ rn.prev[1].pc = "resolved" /\ ~rn.prev[1].dryRun
  /\ rn.prev[1].before = NoStore
  /\ rn.before.version = Len(rn.prev[1].migrations.items)
  /\ DOMAIN rn.before.records = InputIds(rn.prev[1])
  /\ \E options \in SquashOptions :
       LET squashed == squashMigrations(rn.prev[1].migrations.items, options)
       IN ~squashed.threw /\ rn.migrations.items = SquashedSet(squashed)

C40_SquashedSetOnMigratedStore ==
  \A r \in Runners :
    LET rn == run[r] IN
    (RunsSquashed(rn) /\ ~rn.dryRun)
      => /\ rn.pc # "rejected"
         /\ \A i \in DOMAIN rn.log : rn.log[i].kind # "up"
         /\ rn.pc = "resolved"
              => /\ rn.result.appliedMigrations = <<>>
                 /\ store.records = rn.before.records
                 /\ UserTables(store) = UserTables(rn.before)

====
